---- MODULE Spec2Model ----
(***************************************************************************)
(* Bill persistence over the remote D1 query endpoint.                     *)
(*                                                                         *)
(* The store is the remote database (tables bills and bill_items); every   *)
(* request handler is a chain of remote calls, one action per await.       *)
(* Texts (bill numbers, product names, quantities) are tuples of           *)
(* one-character strings so that trimming and number extraction are        *)
(* computed, not assumed.                                                  *)
(***************************************************************************)
EXTENDS Integers, Sequences, FiniteSets, TLC

\* ---------------------------------------------------------------- bounds
MaxRequests == 2
MaxItems == 2

Procs == {"r1", "r2"}

\* ----------------------------------------------------------------- texts
Digits == {"0", "1", "2", "3", "4", "5", "6", "7", "8", "9"}

DigitVal(c) ==
    CASE c = "0" -> 0 [] c = "1" -> 1 [] c = "2" -> 2 [] c = "3" -> 3
      [] c = "4" -> 4 [] c = "5" -> 5 [] c = "6" -> 6 [] c = "7" -> 7
      [] c = "8" -> 8 [] c = "9" -> 9

RECURSIVE DropWhileSpace(_)
DropWhileSpace(t) ==
    IF t # <<>> /\ Head(t) = " " THEN DropWhileSpace(Tail(t)) ELSE t

RECURSIVE DropEndSpace(_)
DropEndSpace(t) ==
    IF t # <<>> /\ t[Len(t)] = " "
    THEN DropEndSpace(SubSeq(t, 1, Len(t) - 1)) ELSE t

\* String.prototype.trim
Trim(t) == DropEndSpace(DropWhileSpace(t))

RECURSIVE DropNonDigits(_)
DropNonDigits(t) ==
    IF t # <<>> /\ Head(t) \notin Digits THEN DropNonDigits(Tail(t)) ELSE t

RECURSIVE ReadDigits(_, _)
ReadDigits(t, acc) ==
    IF t # <<>> /\ Head(t) \in Digits
    THEN ReadDigits(Tail(t), acc * 10 + DigitVal(Head(t)))
    ELSE acc

\* first-number extraction: the first run of digits in the text, 0 if none
extractNumericValue(t) == ReadDigits(DropNonDigits(t), 0)

DigitChar(n) ==
    CASE n = 0 -> "0" [] n = 1 -> "1" [] n = 2 -> "2" [] n = 3 -> "3"
      [] n = 4 -> "4" [] n = 5 -> "5" [] n = 6 -> "6" [] n = 7 -> "7"
      [] n = 8 -> "8" [] n = 9 -> "9"

RECURSIVE NatToString(_)
NatToString(n) ==
    IF n < 10 THEN <<DigitChar(n)>>
    ELSE Append(NatToString(n \div 10), DigitChar(n % 10))

\* Number.prototype.toString
toString(n) == IF n < 0 THEN <<"-">> \o NatToString(0 - n) ELSE NatToString(n)

\* parseInt: leading white space is skipped, a sign is read, then digits up
\* to the first other character; NaN when no digit is found there
ParseInt(t) ==
    LET u == DropWhileSpace(t)
        signed == u # <<>> /\ Head(u) \in {"+", "-"}
        v == IF signed THEN Tail(u) ELSE u
        n == ReadDigits(v, 0) IN
    IF v = <<>> \/ Head(v) \notin Digits THEN [nan |-> TRUE, val |-> 0]
    ELSE [nan |-> FALSE, val |-> IF signed /\ Head(u) = "-" THEN 0 - n ELSE n]

\* ------------------------------------------------------------ the schema
\* "ddl": the bills table was created by initializeTables (bill_number TEXT
\* UNIQUE NOT NULL); "migrated": bill_number was added to an existing table
\* by the ALTER TABLE script (plain TEXT, neither unique nor required).
Schemas == {"ddl", "migrated"}

EmptyDb == [bills |-> <<>>, items |-> <<>>, seq |-> 0, company |-> <<>>]

\* bills is a function from the ids of the existing headers to the headers
BillIds(d) == DOMAIN d.bills

ItemsOf(d, id) == SelectSeq(d.items, LAMBDA r : r.bill_id = id)

NumberInUse(d, num) == \E i \in BillIds(d) : d.bills[i].bill_number = num

\* the constraint, if any, that rejects statement s in store d
StmtViolation(s, d, schema, fk) ==
    CASE s.kind = "insertBill" ->
            IF schema = "ddl" /\ s.row.bill_number = <<>> THEN "not_null_constraint"
            ELSE IF schema = "ddl" /\ NumberInUse(d, s.row.bill_number)
                 THEN "unique_constraint"
            ELSE ""
      [] s.kind = "insertItem" ->
            IF s.row.sr_no = 0 THEN "not_null_constraint"
            ELSE IF fk /\ s.row.bill_id \notin BillIds(d) THEN "foreign_key_constraint"
            ELSE ""
      [] s.kind = "insertCompany" ->
            IF \E i \in 1 .. Len(d.company) : d.company[i].id = s.row.id
            THEN "primary_key_constraint"
            ELSE ""
      [] s.kind = "updateBill" ->
            IF schema = "ddl" /\ s.id \in BillIds(d) /\ "bill_number" \in DOMAIN s.set
            THEN IF s.set.bill_number = <<>> THEN "not_null_constraint"
                 ELSE IF \E i \in BillIds(d) \ {s.id} :
                            d.bills[i].bill_number = s.set.bill_number
                      THEN "unique_constraint"
                 ELSE ""
            ELSE ""
      [] OTHER -> ""

DropBill(b, id) == [i \in (DOMAIN b) \ {id} |-> b[i]]

\* the store after statement s was applied
StmtApply(s, d, fk) ==
    CASE s.kind = "insertBill" ->
            [d EXCEPT !.bills = [i \in (DOMAIN d.bills) \cup {d.seq + 1} |->
                                    IF i = d.seq + 1 THEN s.row ELSE d.bills[i]],
                      !.seq = d.seq + 1]
      [] s.kind = "insertItem" ->
            [d EXCEPT !.items = Append(d.items, s.row)]
      [] s.kind = "deleteItems" ->
            [d EXCEPT !.items = SelectSeq(d.items, LAMBDA r : r.bill_id # s.id)]
      [] s.kind = "deleteBill" ->
            [d EXCEPT !.bills = DropBill(d.bills, s.id),
                      !.items = IF fk /\ s.id \in DOMAIN d.bills
                                THEN SelectSeq(d.items, LAMBDA r : r.bill_id # s.id)
                                ELSE d.items]
      [] s.kind = "deleteBillsByNumber" ->
            LET gone == {i \in DOMAIN d.bills : d.bills[i].bill_number = s.bill_number} IN
            [d EXCEPT !.bills = [i \in (DOMAIN d.bills) \ gone |-> d.bills[i]],
                      !.items = IF fk
                                THEN SelectSeq(d.items, LAMBDA r : r.bill_id \notin gone)
                                ELSE d.items]
      [] s.kind = "insertCompany" ->
            [d EXCEPT !.company = Append(d.company, s.row)]
      [] s.kind = "updateBill" ->
            IF s.id \in DOMAIN d.bills
            THEN [d EXCEPT !.bills[s.id] =
                     [f \in DOMAIN d.bills[s.id] |->
                         IF f \in DOMAIN s.set THEN s.set[f] ELSE d.bills[s.id][f]]]
            ELSE d
      [] OTHER -> d

\* a read: it changes nothing in the store
Select == [kind |-> "select"]

\* rows changed by statement s (meta.changes)
StmtChanges(s, d) ==
    CASE s.kind = "updateBill" -> IF s.id \in DOMAIN d.bills THEN 1 ELSE 0
      [] s.kind = "deleteBill" -> IF s.id \in DOMAIN d.bills THEN 1 ELSE 0
      [] s.kind = "deleteItems" -> Len(ItemsOf(d, s.id))
      [] s.kind = "deleteBillsByNumber" ->
            Cardinality({i \in DOMAIN d.bills : d.bills[i].bill_number = s.bill_number})
      [] OTHER -> 1

\* D1DatabaseClient.query: one HTTP request.  The call throws when the
\* response is not ok or reports success = false (the statement was not
\* applied), and returns the result otherwise.
QueryOutcomes(s, d, schema, fk, canFail) ==
    LET v == StmtViolation(s, d, schema, fk) IN
    (IF v # ""
     THEN {[ok |-> FALSE, err |-> v, db |-> d, changes |-> 0]}
     ELSE {[ok |-> TRUE, err |-> "", db |-> StmtApply(s, d, fk),
            changes |-> StmtChanges(s, d)]})
    \cup
    (IF canFail
     THEN {[ok |-> FALSE, err |-> "d1_error", db |-> d, changes |-> 0]}
     ELSE {})

RECURSIVE ApplyAll(_, _, _)
ApplyAll(stmts, d, fk) ==
    IF stmts = <<>> THEN d
    ELSE ApplyAll(Tail(stmts), StmtApply(Head(stmts), d, fk), fk)

\* number of leading statements the backend accepts one after another
RECURSIVE AcceptedPrefix(_, _, _, _)
AcceptedPrefix(stmts, d, schema, fk) ==
    IF stmts = <<>> THEN 0
    ELSE IF StmtViolation(Head(stmts), d, schema, fk) # "" THEN 0
    ELSE 1 + AcceptedPrefix(Tail(stmts), StmtApply(Head(stmts), d, fk), schema, fk)

\* D1DatabaseClient.batch: one HTTP request carrying the statement list.
\* The backend runs the statements in order and stops at the first that
\* fails; the ones before it stay applied.
BatchOutcomes(stmts, d, schema, fk, canFail) ==
    LET n == Len(stmts)
        a == AcceptedPrefix(stmts, d, schema, fk) IN
    (IF a = n
     THEN {[ok |-> TRUE, err |-> "", db |-> ApplyAll(stmts, d, fk), applied |-> n]}
     ELSE {[ok |-> FALSE, err |-> "batch_failed",
            db |-> ApplyAll(SubSeq(stmts, 1, a), d, fk), applied |-> a]})
    \cup
    (IF canFail
     THEN {[ok |-> FALSE, err |-> "batch_failed",
            db |-> ApplyAll(SubSeq(stmts, 1, k), d, fk), applied |-> k] :
              k \in 0 .. (IF a = n THEN n - 1 ELSE a)}
     ELSE {})

\* --------------------------------------------------------------- payloads
BillNumbers == {<<"7">>, <<"B", "7">>}

Good ==
    [sr_no |-> 1, product_name |-> <<"C">>, product_description |-> <<>>,
     product_category |-> <<"S">>, unit_price |-> 5,
     quantity |-> <<"2", " ", "N">>, total_price |-> 10]

\* has a description, but no name, no category and no price
Bad ==
    [sr_no |-> 0, product_name |-> <<>>, product_description |-> <<"L">>,
     product_category |-> <<>>, unit_price |-> 0,
     quantity |-> <<>>, total_price |-> 0]

Blank ==
    [sr_no |-> 0, product_name |-> <<>>, product_description |-> <<>>,
     product_category |-> <<>>, unit_price |-> 0,
     quantity |-> <<>>, total_price |-> 0]

\* n copies of item
Repeat(item, n) == [i \in 1 .. n |-> item]

\* item lists for a create: MaxItems valid items, or the last one invalid
CreateItemLists ==
    {Repeat(Good, MaxItems), Append(Repeat(Good, MaxItems - 1), Bad)}

\* item lists for an update: no item, or MaxItems items, all with some data
\* or with a completely empty item first or last
PutItemLists ==
    {<<>>, Repeat(Bad, MaxItems), <<Blank>> \o Repeat(Bad, MaxItems - 1),
     Append(Repeat(Bad, MaxItems - 1), Blank)}

\* fields NoId, NoItems of a request that an operation does not use
NoId == 0
NoHdr == <<>>
\* no bank_details object in the payload; an object is <<[bank_name |-> ..,
\* branch |-> ..]>>, a missing or empty member being ""
NoBank == <<>>

\* ------------------------------------------------------------------ state
VARIABLES
    db,        \* the remote store: bills, bill_items, the AUTOINCREMENT counter
    schema,    \* which schema the bills table has
    fkOn,      \* whether the backend enforces the declared foreign key
    pc,        \* position of each request's call chain
    req,       \* the request each call chain serves
    loc,       \* locals of the handler: billId, loop index, pending error
    resp,      \* the HTTP response of the finished request
    aux,       \* history of the current request (what it inserted, rollback)
    snap,      \* the store when the current request started, or as read by it
    now,       \* the wall clock
    started,   \* requests started so far
    sent,      \* history: HTTP requests the current request sent to the backend
    deleted    \* history: ids whose delete request returned success

vars == <<db, schema, fkOn, pc, req, loc, resp, aux, snap, now, started, sent,
          deleted>>

NoReq == [op |-> "none", id |-> NoId, bill_number |-> <<>>, hdr |-> NoHdr,
          hasItems |-> FALSE, items |-> <<>>, bank_details |-> NoBank]
NoLoc == [billId |-> NoId, idx |-> 0, err |-> "", bill |-> <<>>]
NoResp == [status |-> 0, error |-> "", billId |-> NoId, itemsCount |-> 0,
           body |-> <<>>]
\* no client instance
NoClient == 0

NoAux == [insertedId |-> NoId, rollback |-> "none", dup |-> FALSE,
          insertedItems |-> 0, found |-> FALSE, wasDeleted |-> FALSE,
          checked |-> FALSE, client |-> NoClient, boot |-> "none"]

\* any remote call may fail: the backend is intermittently available
CanFail == TRUE

Quiet(p) == pc[p] \in {"idle", "done"}

\* a request arrives and its handler starts
Arrive(p, r, first) ==
    /\ Quiet(p)
    /\ started < MaxRequests
    /\ started' = started + 1
    /\ now' = now + 1
    /\ req' = [req EXCEPT ![p] = r]
    /\ pc' = [pc EXCEPT ![p] = first]
    /\ loc' = [loc EXCEPT ![p] = NoLoc]
    /\ resp' = [resp EXCEPT ![p] = NoResp]
    /\ aux' = [aux EXCEPT ![p] = [NoAux EXCEPT !.dup = NumberInUse(db, r.bill_number),
                                              !.wasDeleted = r.id \in deleted]]
    /\ snap' = [snap EXCEPT ![p] = db]
    /\ sent' = [sent EXCEPT ![p] = 0]
    /\ UNCHANGED <<db, schema, fkOn, deleted>>

\* one request at a time: a handler starts only when no other is running
Serial(p) == Quiet(p) => (p = "r1" /\ \A q \in Procs : Quiet(q))

\* a request arrives while no other request is being served
Begin(p, r, first) == Serial(p) /\ Arrive(p, r, first)

\* the handler returns a response
Return(p, r) ==
    /\ pc' = [pc EXCEPT ![p] = "done"]
    /\ resp' = [resp EXCEPT ![p] = r]

ErrorResp(status, e) == [NoResp EXCEPT !.status = status, !.error = e]

\* --------------------------------------------------- createBill (index.ts)
\* the header row createBill inserts
\* the value the payload gives header field f; a payload that leaves the
\* header out stands for one that carries the given value
Supplied(r, f, other) == IF f \in DOMAIN r.hdr THEN r.hdr[f] ELSE other

BillRow(r, t) ==
    [bill_number |-> r.bill_number,
     customer_name |-> Supplied(r, "customer_name", "asha"),
     customer_phone |-> Supplied(r, "customer_phone", "98"),
     total_amount |-> Supplied(r, "total_amount", 0),
     discount_amount |-> Supplied(r, "discount_amount", 0),
     payment_status |-> "pending", bank_name |-> "", bank_branch |-> "",
     created_at |-> t, updated_at |-> t]

\* the first check of createBill's item loop that item fails, "" if none
ItemError(item) ==
    LET quantityText == IF item.quantity = <<>> THEN <<"1">> ELSE item.quantity IN
    IF Trim(item.product_name) = <<>> THEN "name_required"
    ELSE IF Trim(item.product_category) = <<>> THEN "category_required"
    ELSE IF item.unit_price <= 0 THEN "unit_price_positive"
    ELSE IF extractNumericValue(quantityText) <= 0 THEN "quantity_positive"
    ELSE IF item.total_price <= 0 THEN "total_price_positive"
    ELSE ""

\* fault variant: the quantity column receives the number read from the text
CreateItemRowNumeric(item, index, billId) ==
    [bill_id |-> billId,
     sr_no |-> IF item.sr_no # 0 THEN item.sr_no ELSE index,
     product_name |-> Trim(item.product_name),
     product_description |-> Trim(item.product_description),
     product_category |-> Trim(item.product_category),
     unit_price |-> item.unit_price,
     quantity |-> toString(extractNumericValue(
                     IF item.quantity = <<>> THEN <<"1">> ELSE item.quantity)),
     total_price |-> item.total_price]

\* the bill_items row createBill prepares for the item at position index
CreateItemRow(item, index, billId) ==
    [bill_id |-> billId,
     sr_no |-> IF item.sr_no # 0 THEN item.sr_no ELSE index,
     product_name |-> Trim(item.product_name),
     product_description |-> Trim(item.product_description),
     product_category |-> Trim(item.product_category),
     unit_price |-> item.unit_price,
     quantity |-> IF item.quantity = <<>> THEN <<"1">> ELSE item.quantity,
     total_price |-> item.total_price]

CreateItemStatements(its, billId) ==
    [i \in 1 .. Len(its) |->
        [kind |-> "insertItem", row |-> CreateItemRow(its[i], i, billId)]]

\* status of the response createBill's outer catch builds for error e
CreateErrorStatus(e) == IF e = "unique_constraint" THEN 409 ELSE 500

CreatePayloads ==
    {[op |-> "create", id |-> NoId, bill_number |-> n, hdr |-> NoHdr,
      hasItems |-> TRUE, items |-> its, bank_details |-> NoBank] :
        n \in BillNumbers, its \in CreateItemLists}

\* fault variant: only the first item is checked
InvalidFirstOnly(its) == {i \in 1 .. Len(its) : i = 1 /\ ItemError(its[i]) # ""}

\* the positions at which the loop that prepares the statements throws
InvalidItems(its) == {i \in 1 .. Len(its) : ItemError(its[i]) # ""}

\* INSERT INTO bills ... RETURNING id, then the validation loop over the items
createBill_insert(p) ==
    /\ pc[p] = "c_insert"
    /\ \E r \in QueryOutcomes([kind |-> "insertBill", row |-> BillRow(req[p], now)],
                              db, schema, fkOn, CanFail) :
       \E idReturned \in (IF r.ok THEN BOOLEAN ELSE {TRUE}) :
          /\ db' = r.db
          /\ IF ~r.ok
             THEN /\ Return(p, ErrorResp(CreateErrorStatus(r.err), r.err))
                  /\ UNCHANGED <<loc, aux>>
             ELSE LET billId == r.db.seq
                      its == req[p].items
                      bad == InvalidItems(its) IN
                  /\ aux' = [aux EXCEPT ![p].insertedId = billId]
                  /\ IF ~idReturned
                     THEN /\ Return(p, ErrorResp(CreateErrorStatus("no_bill_id"), "no_bill_id"))
                          /\ UNCHANGED loc
                     ELSE IF Len(its) = 0
                     THEN /\ Return(p, [NoResp EXCEPT !.status = 201, !.billId = billId])
                          /\ loc' = [loc EXCEPT ![p].billId = billId]
                     ELSE IF bad # {}
                     THEN /\ loc' = [loc EXCEPT ![p].billId = billId, ![p].err = "item_invalid"]
                          /\ pc' = [pc EXCEPT ![p] = "c_rollback"]
                          /\ UNCHANGED resp
                     ELSE /\ loc' = [loc EXCEPT ![p].billId = billId]
                          /\ pc' = [pc EXCEPT ![p] = "c_batch"]
                          /\ UNCHANGED resp
    /\ UNCHANGED <<schema, fkOn, deleted, req, snap, now, started>>
    /\ sent' = [sent EXCEPT ![p] = @ + 1]

\* db.batch(itemStatements)
createBill_batch(p) ==
    /\ pc[p] = "c_batch"
    /\ \E r \in BatchOutcomes(CreateItemStatements(req[p].items, loc[p].billId),
                              db, schema, fkOn, CanFail) :
          /\ db' = r.db
          /\ aux' = [aux EXCEPT ![p].insertedItems = r.applied]
          /\ IF r.ok
             THEN /\ Return(p, [NoResp EXCEPT !.status = 201, !.billId = loc[p].billId,
                                              !.itemsCount = Len(req[p].items)])
                  /\ UNCHANGED loc
             ELSE /\ loc' = [loc EXCEPT ![p].err = r.err]
                  /\ pc' = [pc EXCEPT ![p] = "c_rollback"]
                  /\ UNCHANGED resp
    /\ UNCHANGED <<schema, fkOn, deleted, req, snap, now, started>>
    /\ sent' = [sent EXCEPT ![p] = @ + 1]

\* fault variant: the rollback error replaces the item error
RethrowRollbackError(itemError, rollbackError) ==
    IF rollbackError # "" THEN rollbackError ELSE itemError

\* the error createBill rethrows after the rollback attempt
RollbackRethrow(itemError, rollbackError) == itemError

\* fault variant: the rollback removes the items, not the header
RollbackDeletesItems(billId) == [kind |-> "deleteItems", id |-> billId]

\* the statement createBill's rollback sends
RollbackStatement(billId) == [kind |-> "deleteBill", id |-> billId]

\* catch (itemError): DELETE FROM bills WHERE id = billId, then rethrow itemError
createBill_rollback(p) ==
    /\ pc[p] = "c_rollback"
    /\ \E r \in QueryOutcomes(RollbackStatement(loc[p].billId),
                              db, schema, fkOn, CanFail) :
          /\ db' = r.db
          /\ aux' = [aux EXCEPT ![p].rollback = IF r.ok THEN "ok" ELSE "failed"]
          /\ LET e == RollbackRethrow(loc[p].err, IF r.ok THEN "" ELSE "rollback_failed") IN
             Return(p, ErrorResp(CreateErrorStatus(e), e))
    /\ UNCHANGED <<schema, fkOn, deleted, req, loc, snap, now, started>>
    /\ sent' = [sent EXCEPT ![p] = @ + 1]

createBill(p) ==
    \/ \E r \in CreatePayloads : Begin(p, r, "c_insert")
    \/ createBill_insert(p)
    \/ createBill_batch(p)
    \/ createBill_rollback(p)

\* ------------------------------------- createBill (the checking revision)
\* the bill_items row this revision prepares: the item's fields as supplied
Create003ItemRow(item, billId) ==
    [bill_id |-> billId,
     sr_no |-> item.sr_no,
     product_name |-> item.product_name,
     product_description |-> item.product_description,
     product_category |-> item.product_category,
     unit_price |-> item.unit_price,
     quantity |-> item.quantity,
     total_price |-> item.total_price]

Create003ItemStatements(its, billId) ==
    [i \in 1 .. Len(its) |->
        [kind |-> "insertItem", row |-> Create003ItemRow(its[i], billId)]]

Create003Payloads == {[r EXCEPT !.op = "create003"] : r \in CreatePayloads}

\* SELECT bill_number FROM bills WHERE bill_number = ?
createBill003_check(p) ==
    /\ pc[p] = "k_check"
    /\ \E r \in QueryOutcomes(Select, db, schema, fkOn, CanFail) :
          /\ IF ~r.ok THEN Return(p, ErrorResp(500, r.err))
             ELSE IF NumberInUse(db, req[p].bill_number)
             THEN Return(p, ErrorResp(409, "bill_number_exists"))
             ELSE /\ pc' = [pc EXCEPT ![p] = "k_insert"]
                  /\ UNCHANGED resp
          /\ aux' = [aux EXCEPT ![p].found = r.ok /\ NumberInUse(db, req[p].bill_number),
                                ![p].checked = r.ok]
    /\ UNCHANGED <<db, schema, fkOn, deleted, req, loc, snap, now, started>>
    /\ sent' = [sent EXCEPT ![p] = @ + 1]

\* INSERT INTO bills ... RETURNING id
createBill003_insert(p) ==
    /\ pc[p] = "k_insert"
    /\ \E r \in QueryOutcomes([kind |-> "insertBill", row |-> BillRow(req[p], now)],
                              db, schema, fkOn, CanFail) :
       \E idReturned \in (IF r.ok THEN BOOLEAN ELSE {TRUE}) :
          /\ db' = r.db
          /\ IF ~r.ok
             THEN /\ Return(p, ErrorResp(CreateErrorStatus(r.err), r.err))
                  /\ UNCHANGED <<loc, aux>>
             ELSE /\ aux' = [aux EXCEPT ![p].insertedId = r.db.seq]
                  /\ IF ~idReturned
                     THEN /\ Return(p, ErrorResp(500, "no_bill_id"))
                          /\ UNCHANGED loc
                     ELSE IF Len(req[p].items) = 0
                     THEN /\ Return(p, [NoResp EXCEPT !.status = 201, !.billId = r.db.seq])
                          /\ UNCHANGED loc
                     ELSE /\ loc' = [loc EXCEPT ![p].billId = r.db.seq]
                          /\ pc' = [pc EXCEPT ![p] = "k_batch"]
                          /\ UNCHANGED resp
    /\ UNCHANGED <<schema, fkOn, deleted, req, snap, now, started>>
    /\ sent' = [sent EXCEPT ![p] = @ + 1]

\* db.batch(itemStatements); a failure goes to the outer catch, the header stays
createBill003_batch(p) ==
    /\ pc[p] = "k_batch"
    /\ \E r \in BatchOutcomes(Create003ItemStatements(req[p].items, loc[p].billId),
                              db, schema, fkOn, CanFail) :
          /\ db' = r.db
          /\ aux' = [aux EXCEPT ![p].insertedItems = r.applied]
          /\ IF r.ok
             THEN Return(p, [NoResp EXCEPT !.status = 201, !.billId = loc[p].billId])
             ELSE Return(p, ErrorResp(CreateErrorStatus(r.err), r.err))
    /\ UNCHANGED <<schema, fkOn, deleted, req, loc, snap, now, started>>
    /\ sent' = [sent EXCEPT ![p] = @ + 1]

createBill003(p) ==
    \/ \E r \in Create003Payloads : Arrive(p, r, "k_check")
    \/ createBill003_check(p)
    \/ createBill003_insert(p)
    \/ createBill003_batch(p)

\* a store that holds one bill, created earlier by createBill
SeedDb ==
    ApplyAll(<<[kind |-> "insertBill",
                row |-> BillRow([NoReq EXCEPT !.bill_number = <<"7">>], 0)]>>
             \o CreateItemStatements(<<Good>>, 1),
             EmptyDb, FALSE)

\* ------------------------------------------------------ reads by bill id
\* SELECT * FROM bills WHERE id = ?  (results, at most one row)
SelectBill(d, id) ==
    IF id \in BillIds(d) THEN <<[id |-> id, row |-> d.bills[id]]>> ELSE <<>>

TargetIds == 1 .. (db.seq + 1)

\* ------------------------------------------------------- PUT ([id].ts)
billFields == {"customer_name", "payment_status"}
individualBankFields == {"bank_name", "bank_branch"}

\* bankDetailsFields: the member of the bank_details object behind a column
BankMember(o, f) == IF f = "bank_name" THEN o.bank_name ELSE o.branch

NewValue(f) ==
    CASE f = "customer_name" -> "bina"
      [] f = "payment_status" -> "paid"
      [] f = "bank_branch" -> "main"
      [] f = "bill_number" -> <<"9">>
      [] f = "created_at" -> 99
      [] OTHER -> "hdfc"

\* fault variant: every column is written, absent fields as empty values
PutSetFull(r, t) ==
    [f \in billFields \cup individualBankFields \cup {"updated_at"} |->
        IF f = "updated_at" THEN t
        ELSE IF f \in DOMAIN r.hdr THEN r.hdr[f]
        ELSE ""]

\* fault variant: individually named bank fields are applied as well, after
\* the members of the bank_details object
PutSetIndividualToo(r, t) ==
    LET regular == {f \in billFields : f \in DOMAIN r.hdr}
        named == {f \in individualBankFields : f \in DOMAIN r.hdr}
        members == IF r.bank_details # NoBank
                   THEN {f \in individualBankFields :
                            BankMember(r.bank_details[1], f) # ""}
                   ELSE {} IN
    [f \in regular \cup named \cup members \cup {"updated_at"} |->
        IF f = "updated_at" THEN t
        ELSE IF f \in named \cup regular THEN r.hdr[f]
        ELSE BankMember(r.bank_details[1], f)]

\* fault variant: every field of the payload is written, listed or not
PutSetAnyField(r, t) ==
    LET regular == DOMAIN r.hdr \ individualBankFields
        bank == IF r.bank_details # NoBank
                THEN {f \in individualBankFields :
                         BankMember(r.bank_details[1], f) # ""}
                ELSE {f \in individualBankFields : f \in DOMAIN r.hdr} IN
    [f \in regular \cup bank \cup {"updated_at"} |->
        IF f = "updated_at" THEN t
        ELSE IF f \in bank /\ r.bank_details # NoBank
             THEN BankMember(r.bank_details[1], f)
        ELSE r.hdr[f]]

\* the SET clause of the UPDATE the handler builds: the billFields the
\* payload has, the non-empty members of bank_details if the payload has
\* that object and the individually named bank fields otherwise, and
\* updated_at
PutSet(r, t) ==
    LET regular == {f \in billFields : f \in DOMAIN r.hdr}
        bank == IF r.bank_details # NoBank
                THEN {f \in individualBankFields :
                         BankMember(r.bank_details[1], f) # ""}
                ELSE {f \in individualBankFields : f \in DOMAIN r.hdr} IN
    [f \in regular \cup bank \cup {"updated_at"} |->
        IF f = "updated_at" THEN t
        ELSE IF f \in bank /\ r.bank_details # NoBank
             THEN BankMember(r.bank_details[1], f)
        ELSE r.hdr[f]]

\* updateFields.length > 1
PutHasHeaderUpdate(r, t) == Cardinality(DOMAIN PutSet(r, t)) > 1

\* fault variant: an item counts only with description, quantity and unit price
hasDataStrict(item) ==
    /\ item.product_description # <<>>
    /\ item.quantity # <<>>
    /\ item.unit_price # 0

hasData(item) ==
    \/ item.product_description # <<>>
    \/ item.product_name # <<>>
    \/ item.quantity # <<>>
    \/ item.unit_price # 0
    \/ item.total_price # 0

\* the bill_items row PUT inserts for the item at position i
PutItemRow(item, i, id) ==
    [bill_id |-> id,
     sr_no |-> IF item.sr_no # 0 THEN item.sr_no ELSE i,
     product_name |-> IF item.product_name # <<>> THEN item.product_name
                      ELSE item.product_description,
     product_description |-> item.product_description,
     product_category |-> IF item.product_category # <<>>
                          THEN item.product_category ELSE <<"G">>,
     unit_price |-> item.unit_price,
     quantity |-> IF item.quantity # <<>> THEN item.quantity ELSE <<"0">>,
     total_price |-> IF item.total_price # 0 THEN item.total_price
                     ELSE extractNumericValue(IF item.quantity # <<>>
                                              THEN item.quantity ELSE <<"0">>)
                          * item.unit_price]

\* position of the first item at or after i that the loop inserts,
\* Len(its) + 1 when there is none
RECURSIVE NextData(_, _)
NextData(its, i) ==
    IF i > Len(its) THEN i
    ELSE IF hasData(its[i]) THEN i
    ELSE NextData(its, i + 1)

\* the sets of billFields a payload has: none, one, all
PutHdrs == UNION {[S -> {"x"}] : S \in {{}, {"payment_status"}, billFields}}

PutRequest(i, h, has, its) ==
    [op |-> "put", id |-> i, bill_number |-> <<>>,
     hdr |-> [f \in DOMAIN h |-> NewValue(f)],
     hasItems |-> has, items |-> its, bank_details |-> NoBank]

\* payloads without an items array, payloads that are only an items array,
\* and one payload with both
PutPayloads ==
    {PutRequest(i, h, FALSE, <<>>) : i \in TargetIds, h \in PutHdrs}
    \cup {PutRequest(i, h, TRUE, l) :
            i \in TargetIds, h \in [{} -> {"x"}], l \in PutItemLists}
    \cup {PutRequest(i, h, TRUE, <<Good>>) :
            i \in TargetIds, h \in [{"payment_status"} -> {"x"}]}

\* fault variant: the failure escapes the handler and no response is built
PutErrorUncaught(e) == NoResp

\* catch (error): 500 'Failed to update bill'
PutError(e) == ErrorResp(500, e)

\* where the handler goes once the header part is done
PutAfterHeader(p) ==
    IF req[p].hasItems THEN "u_delitems" ELSE "u_read1"

\* SELECT * FROM bills WHERE id = ?, then the SET clause is built
PUT_check(p) ==
    /\ pc[p] = "u_check"
    /\ \E r \in QueryOutcomes(Select, db, schema, fkOn, CanFail) :
          /\ IF ~r.ok THEN Return(p, PutError(r.err))
             ELSE IF SelectBill(db, req[p].id) = <<>>
             THEN Return(p, ErrorResp(404, "not_found"))
             ELSE /\ pc' = [pc EXCEPT ![p] =
                        IF PutHasHeaderUpdate(req[p], now) THEN "u_update"
                        ELSE PutAfterHeader(p)]
                  /\ UNCHANGED resp
    /\ UNCHANGED <<db, schema, fkOn, deleted, req, loc, aux, snap, now, started>>
    /\ sent' = [sent EXCEPT ![p] = @ + 1]

\* UPDATE bills SET ... WHERE id = ?
PUT_update(p) ==
    /\ pc[p] = "u_update"
    /\ \E r \in QueryOutcomes([kind |-> "updateBill", id |-> req[p].id,
                               set |-> PutSet(req[p], now)],
                              db, schema, fkOn, CanFail) :
          /\ db' = r.db
          /\ IF ~r.ok THEN Return(p, PutError(r.err))
             ELSE IF r.changes = 0 THEN Return(p, ErrorResp(404, "not_found"))
             ELSE /\ pc' = [pc EXCEPT ![p] = PutAfterHeader(p)]
                  /\ UNCHANGED resp
    /\ UNCHANGED <<schema, fkOn, deleted, req, loc, aux, snap, now, started>>
    /\ sent' = [sent EXCEPT ![p] = @ + 1]

\* DELETE FROM bill_items WHERE bill_id = ?, then the loop reaches its
\* first item with data
PUT_deleteItems(p) ==
    /\ pc[p] = "u_delitems"
    /\ \E r \in QueryOutcomes([kind |-> "deleteItems", id |-> req[p].id],
                              db, schema, fkOn, CanFail) :
          /\ db' = r.db
          /\ IF ~r.ok THEN Return(p, PutError(r.err)) /\ UNCHANGED loc
             ELSE LET j == NextData(req[p].items, 1) IN
                  /\ loc' = [loc EXCEPT ![p].idx = j]
                  /\ pc' = [pc EXCEPT ![p] =
                        IF j <= Len(req[p].items) THEN "u_insert" ELSE "u_read1"]
                  /\ UNCHANGED resp
    /\ UNCHANGED <<schema, fkOn, deleted, req, aux, snap, now, started>>
    /\ sent' = [sent EXCEPT ![p] = @ + 1]

\* INSERT INTO bill_items ... for item idx, then the loop reaches the next
\* item with data
PUT_insertItem(p) ==
    /\ pc[p] = "u_insert"
    /\ \E r \in QueryOutcomes([kind |-> "insertItem",
                               row |-> PutItemRow(req[p].items[loc[p].idx],
                                                  loc[p].idx, req[p].id)],
                              db, schema, fkOn, CanFail) :
          /\ db' = r.db
          /\ IF ~r.ok THEN Return(p, PutError(r.err)) /\ UNCHANGED loc
             ELSE LET j == NextData(req[p].items, loc[p].idx + 1) IN
                  /\ loc' = [loc EXCEPT ![p].idx = j]
                  /\ pc' = [pc EXCEPT ![p] =
                        IF j <= Len(req[p].items) THEN "u_insert" ELSE "u_read1"]
                  /\ UNCHANGED resp
    /\ UNCHANGED <<schema, fkOn, deleted, req, aux, snap, now, started>>
    /\ sent' = [sent EXCEPT ![p] = @ + 1]

\* SELECT * FROM bills WHERE id = ?  (the updated bill)
PUT_readBill(p) ==
    /\ pc[p] = "u_read1"
    /\ \E r \in QueryOutcomes(Select, db, schema, fkOn, CanFail) :
          /\ IF ~r.ok THEN Return(p, PutError(r.err)) /\ UNCHANGED loc
             ELSE /\ loc' = [loc EXCEPT ![p].bill = SelectBill(db, req[p].id)]
                  /\ pc' = [pc EXCEPT ![p] = "u_read2"]
                  /\ UNCHANGED resp
    /\ UNCHANGED <<db, schema, fkOn, deleted, req, aux, snap, now, started>>
    /\ sent' = [sent EXCEPT ![p] = @ + 1]

\* SELECT * FROM bill_items WHERE bill_id = ?, then the 200 response
PUT_readItems(p) ==
    /\ pc[p] = "u_read2"
    /\ \E r \in QueryOutcomes(Select, db, schema, fkOn, CanFail) :
          /\ IF ~r.ok THEN Return(p, PutError(r.err))
             ELSE Return(p, [NoResp EXCEPT !.status = 200,
                       !.body = <<[bill |-> loc[p].bill,
                                   items |-> ItemsOf(db, req[p].id)]>>])
    /\ UNCHANGED <<db, schema, fkOn, deleted, req, loc, aux, snap, now, started>>
    /\ sent' = [sent EXCEPT ![p] = @ + 1]

PUT(p) ==
    \/ \E r \in PutPayloads : Begin(p, r, "u_check")
    \/ PUT_check(p)
    \/ PUT_update(p)
    \/ PUT_deleteItems(p)
    \/ PUT_insertItem(p)
    \/ PUT_readBill(p)
    \/ PUT_readItems(p)

\* ------------------------------------------------------- GET ([id].ts)
IdRequests(op) ==
    {[op |-> op, id |-> i, bill_number |-> <<>>, hdr |-> NoHdr,
      hasItems |-> FALSE, items |-> <<>>, bank_details |-> NoBank] : i \in TargetIds}

\* SELECT * FROM bills WHERE id = ?
GET_bill(p) ==
    /\ pc[p] = "g_bill"
    /\ \E r \in QueryOutcomes(Select, db, schema, fkOn, CanFail) :
          /\ IF ~r.ok THEN Return(p, ErrorResp(500, r.err)) /\ UNCHANGED loc
             ELSE IF SelectBill(db, req[p].id) = <<>>
             THEN Return(p, ErrorResp(404, "not_found")) /\ UNCHANGED loc
             ELSE /\ loc' = [loc EXCEPT ![p].bill = SelectBill(db, req[p].id)]
                  /\ pc' = [pc EXCEPT ![p] = "g_items"]
                  /\ UNCHANGED resp
    /\ UNCHANGED <<db, schema, fkOn, deleted, req, aux, snap, now, started>>
    /\ sent' = [sent EXCEPT ![p] = @ + 1]

\* SELECT * FROM bill_items WHERE bill_id = ?, then the 200 response
GET_items(p) ==
    /\ pc[p] = "g_items"
    /\ \E r \in QueryOutcomes(Select, db, schema, fkOn, CanFail) :
          /\ IF ~r.ok THEN Return(p, ErrorResp(500, r.err))
             ELSE Return(p, [NoResp EXCEPT !.status = 200,
                       !.body = <<[bill |-> loc[p].bill,
                                   items |-> ItemsOf(db, req[p].id)]>>])
    /\ UNCHANGED <<db, schema, fkOn, deleted, req, loc, aux, snap, now, started>>
    /\ sent' = [sent EXCEPT ![p] = @ + 1]

GET(p) ==
    \/ \E r \in IdRequests("get") : Begin(p, r, "g_bill")
    \/ GET_bill(p)
    \/ GET_items(p)

\* ---------------------------------------------------- DELETE ([id].ts)
\* fault variant: the header is deleted before the items
DeleteBillFirst(id) ==
    <<[kind |-> "deleteBill", id |-> id], [kind |-> "deleteItems", id |-> id]>>

\* fault variant: the items are left to the foreign-key cascade
DeleteHeaderOnly(id) ==
    <<Select, [kind |-> "deleteBill", id |-> id]>>

\* the two statements of a delete, in the order the handlers send them
DeleteItemsFirst(id) ==
    <<[kind |-> "deleteItems", id |-> id], [kind |-> "deleteBill", id |-> id]>>

\* SELECT id FROM bills WHERE id = ?
DELETE_check(p) ==
    /\ pc[p] = "d_check"
    /\ \E r \in QueryOutcomes(Select, db, schema, fkOn, CanFail) :
          /\ IF ~r.ok THEN Return(p, ErrorResp(500, r.err))
             ELSE IF SelectBill(db, req[p].id) = <<>>
             THEN Return(p, ErrorResp(404, "not_found"))
             ELSE /\ pc' = [pc EXCEPT ![p] = "d_first"]
                  /\ UNCHANGED resp
          /\ aux' = [aux EXCEPT ![p].found = r.ok /\ SelectBill(db, req[p].id) # <<>>]
    /\ UNCHANGED <<db, schema, fkOn, deleted, req, loc, snap, now, started>>
    /\ sent' = [sent EXCEPT ![p] = @ + 1]

\* DELETE FROM bill_items WHERE bill_id = ?
DELETE_items(p) ==
    /\ pc[p] = "d_first"
    /\ \E r \in QueryOutcomes(DeleteItemsFirst(req[p].id)[1],
                              db, schema, fkOn, CanFail) :
          /\ db' = r.db
          /\ IF ~r.ok THEN Return(p, ErrorResp(500, r.err))
             ELSE /\ pc' = [pc EXCEPT ![p] = "d_second"]
                  /\ UNCHANGED resp
    /\ UNCHANGED <<schema, fkOn, deleted, req, loc, aux, snap, now, started>>
    /\ sent' = [sent EXCEPT ![p] = @ + 1]

\* DELETE FROM bills WHERE id = ?, then the 200 response
DELETE_bill(p) ==
    /\ pc[p] = "d_second"
    /\ \E r \in QueryOutcomes(DeleteItemsFirst(req[p].id)[2],
                              db, schema, fkOn, CanFail) :
          /\ db' = r.db
          /\ IF ~r.ok THEN Return(p, ErrorResp(500, r.err))
             ELSE Return(p, [NoResp EXCEPT !.status = 200])
          /\ deleted' = IF r.ok THEN deleted \cup {req[p].id} ELSE deleted
    /\ UNCHANGED <<schema, fkOn, req, loc, aux, snap, now, started>>
    /\ sent' = [sent EXCEPT ![p] = @ + 1]

DELETE(p) ==
    \/ \E r \in IdRequests("delete") : Begin(p, r, "d_check")
    \/ DELETE_check(p)
    \/ DELETE_items(p)
    \/ DELETE_bill(p)

\* ---------------------------------------------------- deleteBill (index.ts)
\* SELECT id FROM bills WHERE id = ?
deleteBill_check(p) ==
    /\ pc[p] = "b_check"
    /\ \E r \in QueryOutcomes(Select, db, schema, fkOn, CanFail) :
          /\ IF ~r.ok THEN Return(p, ErrorResp(500, "delete_failed"))
             ELSE IF SelectBill(db, req[p].id) = <<>>
             THEN Return(p, ErrorResp(404, "not_found"))
             ELSE /\ pc' = [pc EXCEPT ![p] = "b_batch"]
                  /\ UNCHANGED resp
          /\ aux' = [aux EXCEPT ![p].found = r.ok /\ SelectBill(db, req[p].id) # <<>>]
    /\ UNCHANGED <<db, schema, fkOn, deleted, req, loc, snap, now, started>>
    /\ sent' = [sent EXCEPT ![p] = @ + 1]

\* db.batch(deleteStatements), then the 200 response
deleteBill_batch(p) ==
    /\ pc[p] = "b_batch"
    /\ \E r \in BatchOutcomes(DeleteItemsFirst(req[p].id), db, schema, fkOn, CanFail) :
          /\ db' = r.db
          /\ IF ~r.ok THEN Return(p, ErrorResp(500, "delete_failed"))
             ELSE Return(p, [NoResp EXCEPT !.status = 200, !.billId = req[p].id])
          /\ deleted' = IF r.ok THEN deleted \cup {req[p].id} ELSE deleted
    /\ UNCHANGED <<schema, fkOn, req, loc, aux, snap, now, started>>
    /\ sent' = [sent EXCEPT ![p] = @ + 1]

deleteBill(p) ==
    \/ \E r \in IdRequests("deleteBill") : Begin(p, r, "b_check")
    \/ deleteBill_check(p)
    \/ deleteBill_batch(p)

\* ---------------------------------------------------- updateBill (index.ts)
\* the SET clause of updateBill: every column, from the payload
UpdateBillSet(r, t) ==
    [bill_number |-> r.bill_number, customer_name |-> "bina",
     payment_status |-> "paid", bank_name |-> "", bank_branch |-> "",
     updated_at |-> t]

UpdateBillPayloads ==
    {[op |-> "updateBill", id |-> i, bill_number |-> n, hdr |-> NoHdr,
      hasItems |-> FALSE, items |-> <<>>, bank_details |-> NoBank] :
        i \in TargetIds, n \in BillNumbers}

\* UPDATE bills SET ... WHERE id = ?, then the 200 response
updateBill_update(p) ==
    /\ pc[p] = "w_update"
    /\ \E r \in QueryOutcomes([kind |-> "updateBill", id |-> req[p].id,
                               set |-> UpdateBillSet(req[p], now)],
                              db, schema, fkOn, CanFail) :
          /\ db' = r.db
          /\ IF ~r.ok THEN Return(p, ErrorResp(500, "update_failed"))
             ELSE Return(p, [NoResp EXCEPT !.status = 200, !.billId = req[p].id])
    /\ UNCHANGED <<schema, fkOn, deleted, req, loc, aux, snap, now, started>>
    /\ sent' = [sent EXCEPT ![p] = @ + 1]

updateBill(p) ==
    \/ \E r \in UpdateBillPayloads : Begin(p, r, "w_update")
    \/ updateBill_update(p)

Init ==
    /\ db \in {EmptyDb, SeedDb}
    /\ schema \in Schemas
    /\ fkOn \in BOOLEAN
    /\ pc = [p \in Procs |-> "idle"]
    /\ req = [p \in Procs |-> NoReq]
    /\ loc = [p \in Procs |-> NoLoc]
    /\ resp = [p \in Procs |-> NoResp]
    /\ aux = [p \in Procs |-> NoAux]
    /\ snap = [p \in Procs |-> EmptyDb]
    /\ now = 0
    /\ started = 0
    /\ sent = [p \in Procs |-> 0]
    /\ deleted = {}

\* --------------------------------------------------------- specifications
\* one request at a time (Begin admits a request only when all are quiet)
Handler(p) ==
    \/ createBill(p)
    \/ PUT(p)
    \/ GET(p)
    \/ DELETE(p)
    \/ deleteBill(p)
    \/ updateBill(p)

Next == \E p \in Procs : Handler(p)

Spec == Init /\ [][Next]_vars

\* the revision whose createBill checks the bill number first; requests run
\* concurrently, each remote call is one step
Next003 == \E p \in Procs : createBill003(p)

Spec003 == Init /\ [][Next003]_vars

\* ------------------------------------------- initializeDatabase (database.ts)
\* CREATE TABLE IF NOT EXISTS / CREATE INDEX IF NOT EXISTS: no row changes
Ddl == [kind |-> "createIfNotExists"]

\* the tables and the indexes of initializeTables
DdlStatements == <<Ddl, Ddl, Ddl, Ddl>>

\* fault variant: the row is inserted with the next free id
CompanyInsertNextId(d) ==
    [kind |-> "insertCompany", row |-> [id |-> Len(d.company) + 1, name |-> "shagoon"]]

\* INSERT INTO company_info (id, ...) VALUES (1, ...)
CompanyInsert(d) ==
    [kind |-> "insertCompany", row |-> [id |-> 1, name |-> "shagoon"]]

\* sampleBills: BILL-710, BILL-711, BILL-712
sampleBills ==
    <<[bill_number |-> <<"B", "I", "L", "L", "-", "7", "1", "0">>,
       customer_name |-> "cups", customer_phone |-> "9820",
       discount_amount |-> 0, total_amount |-> 25901, payment_status |-> "paid"],
      [bill_number |-> <<"B", "I", "L", "L", "-", "7", "1", "1">>,
       customer_name |-> "abc", customer_phone |-> "9876",
       discount_amount |-> 750, total_amount |-> 16950, payment_status |-> "pending"],
      [bill_number |-> <<"B", "I", "L", "L", "-", "7", "1", "2">>,
       customer_name |-> "xyz", customer_phone |-> "8765",
       discount_amount |-> 4500, total_amount |-> 48600, payment_status |-> "partial"]>>

SampleItem(sr, name, category, price, qty, total) ==
    [sr_no |-> sr, product_name |-> name, product_description |-> <<"d">>,
     product_category |-> category, unit_price |-> price, quantity |-> qty,
     total_price |-> total]

\* sampleItems: two items for the first bill, one for each of the others
sampleItems ==
    <<<<SampleItem(1, <<"M">>, <<"C">>, 1600, <<"1", "2">>, 19200),
        SampleItem(2, <<"R">>, <<"W">>, 550, <<"5">>, 2750)>>,
      <<SampleItem(1, <<"E">>, <<"C">>, 2500, <<"6">>, 15000)>>,
      <<SampleItem(1, <<"T">>, <<"T">>, 15000, <<"3">>, 45000)>>>>

\* billStatements: created_at and updated_at are the column defaults
SampleBillStatements(t) ==
    [i \in 1 .. Len(sampleBills) |->
        [kind |-> "insertBill",
         row |-> [bill_number |-> sampleBills[i].bill_number,
                  customer_name |-> sampleBills[i].customer_name,
                  customer_phone |-> sampleBills[i].customer_phone,
                  total_amount |-> sampleBills[i].total_amount,
                  discount_amount |-> sampleBills[i].discount_amount,
                  payment_status |-> sampleBills[i].payment_status,
                  bank_name |-> "indian", bank_branch |-> "malad",
                  created_at |-> t, updated_at |-> t]]]

RECURSIVE SampleItemStatements(_, _)
\* itemStatements: the items of sample bill billIndex and of those after it,
\* each with the last_row_id of its bill (firstId is that of the first bill)
SampleItemStatements(billIndex, firstId) ==
    IF billIndex > Len(sampleBills) THEN <<>>
    ELSE [j \in 1 .. Len(sampleItems[billIndex]) |->
            [kind |-> "insertItem",
             row |-> [bill_id |-> firstId + billIndex - 1]
                       @@ sampleItems[billIndex][j]]]
         \o SampleItemStatements(billIndex + 1, firstId)

\* where a bootstrap run goes next, and what it has seen so far
BootStep(p, next, failedNow) ==
    /\ pc' = [pc EXCEPT ![p] = next]
    /\ aux' = [aux EXCEPT ![p].boot =
                  IF failedNow \/ aux[p].boot = "failed" THEN "failed"
                  ELSE IF next = "done" THEN "ok"
                  ELSE "running"]

\* initializeDatabase(): a new client is constructed and returned to the
\* caller at once; initializeTables(client) is started and not awaited
initializeDatabase_call(p) ==
    /\ Quiet(p)
    /\ started < MaxRequests
    /\ started' = started + 1
    /\ now' = now + 1
    /\ req' = [req EXCEPT ![p] = [NoReq EXCEPT !.op = "init"]]
    /\ pc' = [pc EXCEPT ![p] = "i_ddl"]
    /\ loc' = [loc EXCEPT ![p] = NoLoc]
    /\ resp' = [resp EXCEPT ![p] = NoResp]
    /\ aux' = [aux EXCEPT ![p] = [NoAux EXCEPT !.client = started + 1,
                                              !.boot = "running"]]
    /\ snap' = [snap EXCEPT ![p] = db]
    /\ sent' = [sent EXCEPT ![p] = 0]
    /\ UNCHANGED <<db, schema, fkOn, deleted>>

\* await client.batch(statements); a failure ends the run in the outer catch
initializeTables_ddl(p) ==
    /\ pc[p] = "i_ddl"
    /\ \E r \in BatchOutcomes(DdlStatements, db, schema, fkOn, CanFail) :
          /\ db' = r.db
          /\ BootStep(p, IF r.ok THEN "i_ccount" ELSE "done", ~r.ok)
    /\ UNCHANGED <<schema, fkOn, deleted, req, loc, resp, snap, now, started>>
    /\ sent' = [sent EXCEPT ![p] = @ + 1]

\* SELECT COUNT(*) FROM company_info; a failure is caught and only logged
insertCompanyInfo_count(p) ==
    /\ pc[p] = "i_ccount"
    /\ \E r \in QueryOutcomes(Select, db, schema, fkOn, CanFail) :
          BootStep(p, IF r.ok /\ Len(db.company) = 0 THEN "i_cinsert" ELSE "i_scount",
                   ~r.ok)
    /\ UNCHANGED <<db, schema, fkOn, deleted, req, loc, resp, snap, now, started>>
    /\ sent' = [sent EXCEPT ![p] = @ + 1]

\* INSERT INTO company_info; a failure is caught and only logged
insertCompanyInfo_insert(p) ==
    /\ pc[p] = "i_cinsert"
    /\ \E r \in QueryOutcomes(CompanyInsert(db), db, schema, fkOn, CanFail) :
          /\ db' = r.db
          /\ BootStep(p, "i_scount", ~r.ok)
    /\ UNCHANGED <<schema, fkOn, deleted, req, loc, resp, snap, now, started>>
    /\ sent' = [sent EXCEPT ![p] = @ + 1]

\* SELECT COUNT(*) FROM bills; a failure is caught and only logged
insertSampleData_count(p) ==
    /\ pc[p] = "i_scount"
    /\ \E r \in QueryOutcomes(Select, db, schema, fkOn, CanFail) :
          BootStep(p, IF r.ok /\ BillIds(db) = {} THEN "i_sbills" ELSE "done", ~r.ok)
    /\ UNCHANGED <<db, schema, fkOn, deleted, req, loc, resp, snap, now, started>>
    /\ sent' = [sent EXCEPT ![p] = @ + 1]

\* client.batch(billStatements); billResults carry the new ids
insertSampleData_bills(p) ==
    /\ pc[p] = "i_sbills"
    /\ \E r \in BatchOutcomes(SampleBillStatements(now), db, schema, fkOn, CanFail) :
          /\ db' = r.db
          /\ loc' = [loc EXCEPT ![p].billId = IF r.ok THEN db.seq + 1 ELSE NoId]
          /\ BootStep(p, IF r.ok THEN "i_sitems" ELSE "done", ~r.ok)
    /\ UNCHANGED <<schema, fkOn, deleted, req, resp, snap, now, started>>
    /\ sent' = [sent EXCEPT ![p] = @ + 1]

\* client.batch(itemStatements)
insertSampleData_items(p) ==
    /\ pc[p] = "i_sitems"
    /\ \E r \in BatchOutcomes(SampleItemStatements(1, loc[p].billId),
                              db, schema, fkOn, CanFail) :
          /\ db' = r.db
          /\ BootStep(p, "done", ~r.ok)
    /\ UNCHANGED <<schema, fkOn, deleted, req, loc, resp, snap, now, started>>
    /\ sent' = [sent EXCEPT ![p] = @ + 1]

initializeDatabase(p) ==
    \/ initializeDatabase_call(p)
    \/ initializeTables_ddl(p)
    \/ insertCompanyInfo_count(p)
    \/ insertCompanyInfo_insert(p)
    \/ insertSampleData_count(p)
    \/ insertSampleData_bills(p)
    \/ insertSampleData_items(p)

\* calls of initializeDatabase by concurrent requests of one process
NextBoot == \E p \in Procs : initializeDatabase(p)

SpecBoot == Init /\ [][NextBoot]_vars

\* ------------------------------------- customer search (part_006)
\* the customer names of the model, in ascending order, and their spelling
customerNames == <<"asha", "bina", "usha">>

NameText(name) ==
    CASE name = "asha" -> <<"a", "s", "h", "a">>
      [] name = "bina" -> <<"b", "i", "n", "a">>
      [] name = "usha" -> <<"u", "s", "h", "a">>
      [] OTHER -> <<>>

\* position of name in the ascending order (ORDER BY b.customer_name ASC)
NameRank(name) ==
    IF \E i \in 1 .. Len(customerNames) : customerNames[i] = name
    THEN CHOOSE i \in 1 .. Len(customerNames) : customerNames[i] = name
    ELSE 0

\* LIKE compares ASCII letters without regard to case
Lower(c) ==
    CASE c = "A" -> "a" [] c = "S" -> "s" [] c = "H" -> "h" [] OTHER -> c

\* text LIKE pattern: % stands for any run of characters, _ for any one
RECURSIVE Like(_, _)
Like(text, pattern) ==
    IF pattern = <<>> THEN text = <<>>
    ELSE IF Head(pattern) = "%"
         THEN Like(text, Tail(pattern)) \/ (text # <<>> /\ Like(Tail(text), pattern))
    ELSE IF text = <<>> THEN FALSE
    ELSE IF Head(pattern) = "_" \/ Lower(Head(pattern)) = Lower(Head(text))
         THEN Like(Tail(text), Tail(pattern))
    ELSE FALSE

\* `%${query}%`
searchTerm(query) == <<"%">> \o query \o <<"%">>

\* the inner SELECT: per matching customer name, the highest id
recent_bills(d, term) ==
    {i \in BillIds(d) :
        /\ Like(NameText(d.bills[i].customer_name), term)
        /\ \A j \in BillIds(d) :
              d.bills[j].customer_name = d.bills[i].customer_name => j <= i}

\* the ids of S as a sequence, by ascending customer name
RECURSIVE ByName(_, _)
ByName(d, S) ==
    IF S = {} THEN <<>>
    ELSE LET i == CHOOSE k \in S : \A j \in S :
                     NameRank(d.bills[k].customer_name) <= NameRank(d.bills[j].customer_name)
         IN <<i>> \o ByName(d, S \ {i})

\* LIMIT n
Limit(s, n) == SubSeq(s, 1, IF Len(s) < n THEN Len(s) ELSE n)

\* the rows of searchQuery
searchQuery(d, term) ==
    LET ids == Limit(ByName(d, recent_bills(d, term)), 10) IN
    [k \in 1 .. Len(ids) |->
        [customer_name |-> d.bills[ids[k]].customer_name,
         customer_phone |-> d.bills[ids[k]].customer_phone]]

\* absent (<<>>), too short, short once trimmed, plain, upper case, with a
\* wildcard
Queries ==
    {<<>>, <<"s", "h">>, <<" ", "s", "h", " ">>, <<"s", "h", "a">>,
     <<"S", "H", "A">>, <<"_", "s", "h">>}

\* fault variant: two characters are enough
TooShortTwo(query) == query = <<>> \/ Len(Trim(query)) < 2

\* !query || query.trim().length < 3
TooShort(query) == query = <<>> \/ Len(Trim(query)) < 3

\* the check of the query, before initializeDatabase()
searchCustomers_validate(p) ==
    /\ pc[p] = "s_validate"
    /\ IF TooShort(req[p].bill_number)
       THEN Return(p, ErrorResp(400, "query_too_short"))
       ELSE /\ pc' = [pc EXCEPT ![p] = "s_query"]
            /\ UNCHANGED resp
    /\ UNCHANGED <<db, schema, fkOn, deleted, req, loc, aux, snap, now, started, sent>>

\* db.query(searchQuery, [searchTerm]), then the 200 response with the rows
searchCustomers_query(p) ==
    /\ pc[p] = "s_query"
    /\ \E r \in QueryOutcomes(Select, db, schema, fkOn, CanFail) :
          /\ db' = r.db
          /\ IF ~r.ok THEN Return(p, ErrorResp(500, r.err))
             ELSE Return(p, [NoResp EXCEPT !.status = 200,
                       !.body = searchQuery(db, searchTerm(req[p].bill_number))])
    /\ UNCHANGED <<schema, fkOn, deleted, req, loc, aux, snap, now, started>>
    /\ sent' = [sent EXCEPT ![p] = @ + 1]

\* the search request; its query travels in the bill_number field
searchCustomers(p) ==
    \/ \E q \in Queries :
          Arrive(p, [NoReq EXCEPT !.op = "search", !.bill_number = q], "s_validate")
    \/ searchCustomers_validate(p)
    \/ searchCustomers_query(p)

\* bills of several customers: a name seen before with another phone number,
\* and new names
CustomerPayloads ==
    {[op |-> "create003", id |-> NoId, bill_number |-> <<"B", "7">>,
      hdr |-> [customer_name |-> n, customer_phone |-> "99"],
      hasItems |-> TRUE, items |-> <<Good>>, bank_details |-> NoBank] :
        n \in {customerNames[i] : i \in 1 .. Len(customerNames)}}

\* concurrent requests that create bills and search the customers
NextSearch ==
    \E p \in Procs :
        \/ \E r \in CustomerPayloads : Arrive(p, r, "k_check")
        \/ createBill003_check(p)
        \/ createBill003_insert(p)
        \/ createBill003_batch(p)
        \/ searchCustomers(p)

SpecSearch == Init /\ [][NextSearch]_vars

\* ------------------------------------- validateConfig (database.ts)
\* the environment variables of DB_CONFIG, in the order validateConfig
\* looks at them
configNames ==
    <<"CLOUDFLARE_ACCOUNT_ID", "CLOUDFLARE_D1_DATABASE_ID", "CLOUDFLARE_API_TOKEN">>

\* the configurations: each value set, or '' (the variable is not set)
Configs == [{configNames[i] : i \in 1 .. Len(configNames)} -> {"", "x"}]

\* fault variant: the first missing value is reported alone
missingFirst(config) ==
    LET all == SelectSeq(configNames, LAMBDA n : config[n] = "") IN
    IF all = <<>> THEN <<>> ELSE <<Head(all)>>

\* missing: the names whose value is empty, pushed in order
missing(config) == SelectSeq(configNames, LAMBDA n : config[n] = "")

\* initializeDatabase() under a configuration: validateConfig throws, or the
\* client is constructed, initializeTables is started and the client returned
initializeDatabase_validate(p) ==
    /\ Quiet(p)
    /\ started < MaxRequests
    /\ started' = started + 1
    /\ now' = now + 1
    /\ \E config \in Configs :
          /\ req' = [req EXCEPT ![p] = [NoReq EXCEPT !.op = "init", !.hdr = config]]
          /\ IF missing(config) # <<>>
             THEN /\ Return(p, [NoResp EXCEPT !.error = "missing_environment_variables",
                                              !.body = missing(config)])
                  /\ aux' = [aux EXCEPT ![p] = NoAux]
             ELSE /\ pc' = [pc EXCEPT ![p] = "i_ddl"]
                  /\ resp' = [resp EXCEPT ![p] = NoResp]
                  /\ aux' = [aux EXCEPT ![p] = [NoAux EXCEPT !.client = started + 1,
                                                            !.boot = "running"]]
    /\ loc' = [loc EXCEPT ![p] = NoLoc]
    /\ snap' = [snap EXCEPT ![p] = db]
    /\ sent' = [sent EXCEPT ![p] = 0]
    /\ UNCHANGED <<db, schema, fkOn, deleted>>

\* calls of initializeDatabase under any configuration, and their bootstraps
NextConfig ==
    \E p \in Procs :
        \/ initializeDatabase_validate(p)
        \/ initializeTables_ddl(p)
        \/ insertCompanyInfo_count(p)
        \/ insertCompanyInfo_insert(p)
        \/ insertSampleData_count(p)
        \/ insertSampleData_bills(p)
        \/ insertSampleData_items(p)

SpecConfig == Init /\ [][NextConfig]_vars

\* ------------------------------------- D1DatabaseClient (database.ts)
\* what fetch gives back: the request did not get through (fetch rejects),
\* or an HTTP response with its status and the success flag of its body
NetworkFailure == [status |-> 0, success |-> FALSE]

FailureResponses ==
    {NetworkFailure} \cup {[status |-> st, success |-> FALSE] : st \in {401, 500}}

\* the response to a statement the backend ran: 200, success = false when
\* the statement was rejected
RanResponse(v) == [status |-> 200, success |-> v = ""]

\* fault variant: the status is left out of the message
ApiErrorPlain(status) == "D1 API error"

\* `D1 API error: ${response.status} ${response.statusText}`
ApiError(status) ==
    CASE status = 401 -> "D1 API error: 401 Unauthorized"
      [] status = 500 -> "D1 API error: 500 Internal Server Error"

\* the error query and batch throw for response h, "" when they return;
\* failed is `D1 query failed` or `D1 batch failed`, which is followed by the
\* message of result.errors[0]
ClientError(h, failed) ==
    IF h = NetworkFailure THEN "fetch failed"
    ELSE IF h.status < 200 \/ h.status > 299 THEN ApiError(h.status)
    ELSE IF ~h.success THEN failed
    ELSE ""

\* statements a caller hands to query and batch
ClientStatements ==
    {Select,
     [kind |-> "insertBill", row |-> BillRow([NoReq EXCEPT !.bill_number = <<"7">>], 0)],
     [kind |-> "insertBill", row |-> BillRow([NoReq EXCEPT !.bill_number = <<"8">>], 0)]}

ClientBatches ==
    {<<a, b>> : a, b \in ClientStatements \ {Select}}

\* a caller's request: the statements to send, in hdr
ClientRequest(op, stmts) == [NoReq EXCEPT !.op = op, !.hdr = stmts]

\* the outcome of a call: the HTTP status, the error thrown (resp.error, and
\* in loc.err the message of the backend's first error), the value returned
ClientReturn(p, h, failed, message, value) ==
    /\ loc' = [loc EXCEPT ![p].err = IF h.status = 200 THEN message ELSE ""]
    /\ Return(p, [NoResp EXCEPT
           !.status = h.status,
           !.error = ClientError(h, failed),
           !.body = IF ClientError(h, failed) = "" THEN value ELSE <<>>])

\* query(sql, params): one fetch; throws on a response that is not ok and on
\* success = false, returns result.result[0] otherwise
D1DatabaseClient_query(p) ==
    /\ pc[p] = "q_fetch"
    /\ LET s == req[p].hdr[1]
           v == StmtViolation(s, db, schema, fkOn)
           result == <<[changes |-> StmtChanges(s, db)]>> IN
       \E h \in FailureResponses \cup {RanResponse(v)} :
          /\ db' = IF h.status = 200 /\ v = "" THEN StmtApply(s, db, fkOn) ELSE db
          /\ ClientReturn(p, h, "D1 query failed", v, <<result[1]>>)
    /\ sent' = [sent EXCEPT ![p] = @ + 1]
    /\ UNCHANGED <<schema, fkOn, deleted, req, aux, snap, now, started>>

\* batch(statements): one fetch carrying the list; the backend runs the
\* statements in order up to the first it rejects; throws as query does
D1DatabaseClient_batch(p) ==
    /\ pc[p] = "b_fetch"
    /\ LET stmts == req[p].hdr
           a == AcceptedPrefix(stmts, db, schema, fkOn)
           after == ApplyAll(SubSeq(stmts, 1, a), db, fkOn)
           v == IF a = Len(stmts) THEN ""
                ELSE StmtViolation(stmts[a + 1], after, schema, fkOn) IN
       \E h \in FailureResponses \cup {RanResponse(v)} :
          /\ db' = IF h.status = 200 THEN after ELSE db
          /\ aux' = [aux EXCEPT ![p].insertedItems = IF h.status = 200 THEN a ELSE 0]
          /\ ClientReturn(p, h, "D1 batch failed", v, [i \in 1 .. a |-> [changes |-> 1]])
    /\ sent' = [sent EXCEPT ![p] = @ + 1]
    /\ UNCHANGED <<schema, fkOn, deleted, req, snap, now, started>>

D1DatabaseClient(p) ==
    \/ \E s \in ClientStatements : Arrive(p, ClientRequest("query", <<s>>), "q_fetch")
    \/ \E b \in ClientBatches : Arrive(p, ClientRequest("batch", b), "b_fetch")
    \/ D1DatabaseClient_query(p)
    \/ D1DatabaseClient_batch(p)

\* concurrent callers of the client
NextClient == \E p \in Procs : D1DatabaseClient(p)

SpecClient == Init /\ [][NextClient]_vars

\* ------------------------------------------------------ POST (index.ts)
requiredFields == {"customer_name", "customer_phone", "invoice_date"}

\* a value the payload may carry for header field f
PostValue(f) ==
    CASE f = "customer_name" -> "asha"
      [] f = "customer_phone" -> "99"
      [] f = "invoice_date" -> "d1"
      [] f = "total_amount" -> 15
      [] f = "discount_amount" -> 2

\* missingFields: the required fields that are absent or empty
missingFields(r) == {f \in requiredFields : f \notin DOMAIN r.hdr \/ r.hdr[f] = ""}

\* valid, with white space around the name and the description, and with
\* no sr_no and no quantity
Padded ==
    [sr_no |-> 0, product_name |-> <<" ", "D">>, product_description |-> <<"L", " ">>,
     product_category |-> <<"S">>, unit_price |-> 3,
     quantity |-> <<>>, total_price |-> 3]

\* valid, all fields given
Other ==
    [sr_no |-> 2, product_name |-> <<"E">>, product_description |-> <<>>,
     product_category |-> <<"T">>, unit_price |-> 4,
     quantity |-> <<"3">>, total_price |-> 12]

\* item lists of a POST: none; valid ones; one invalid item, last or first
PostItemLists ==
    {<<>>, Append(Repeat(Good, MaxItems - 1), Other),
     <<Padded>> \o Repeat(Good, MaxItems - 1),
     Append(Repeat(Good, MaxItems - 1), Bad),
     <<Bad>> \o Repeat(Good, MaxItems - 1)}

PostRequest(h, its) ==
    [op |-> "post", id |-> NoId, bill_number |-> <<"7">>, hdr |-> h,
     hasItems |-> TRUE, items |-> its, bank_details |-> NoBank]

\* payloads with every required field and each item list, with and without
\* the amounts; payloads that lack required fields or hold an empty one
PostPayloads ==
    {PostRequest([f \in requiredFields \cup S |-> PostValue(f)], its) :
        S \in {{}, {"total_amount", "discount_amount"}}, its \in PostItemLists}
    \cup
    {PostRequest([f \in S |-> PostValue(f)], Repeat(Good, MaxItems)) :
        S \in (SUBSET requiredFields) \ {requiredFields}}
    \cup
    {PostRequest([f \in requiredFields |->
                     IF f = "customer_phone" THEN "" ELSE PostValue(f)],
                 Repeat(Good, MaxItems)),
     [PostRequest([f \in requiredFields |-> PostValue(f)], <<>>)
        EXCEPT !.hasItems = FALSE]}

\* fault variant: the item list is not looked at
NoItemsNever(r) == FALSE

\* !billData.items || billData.items.length === 0
NoItems(r) == ~r.hasItems \/ Len(r.items) = 0

\* the checks of the POST handler, then initializeDatabase() and createBill
POST_validate(p) ==
    /\ pc[p] = "p_validate"
    /\ IF missingFields(req[p]) # {}
       THEN Return(p, ErrorResp(400, "missing_required_fields"))
       ELSE IF NoItems(req[p])
       THEN Return(p, ErrorResp(400, "items_required"))
       ELSE /\ pc' = [pc EXCEPT ![p] = "c_insert"]
            /\ UNCHANGED resp
    /\ UNCHANGED <<db, schema, fkOn, deleted, req, loc, aux, snap, now, started, sent>>

POST(p) ==
    \/ \E r \in PostPayloads : Begin(p, r, "p_validate")
    \/ POST_validate(p)
    \/ createBill_insert(p)
    \/ createBill_batch(p)
    \/ createBill_rollback(p)

\* a GET by id from a second client, while no request is being served
ReadBack(p) ==
    \/ /\ p = "r2"
       /\ \A q \in Procs : Quiet(q)
       /\ \E r \in IdRequests("get") : Arrive(p, r, "g_bill")
    \/ GET_bill(p)
    \/ GET_items(p)

\* one request at a time: bills are posted and read back
NextPost == \E p \in Procs : POST(p) \/ ReadBack(p)

SpecPost == Init /\ [][NextPost]_vars

\* ---------------------------------- generateUniqueBillNumber (part_003)
\* fault variant: the bill with the lowest id is read
SelectOldest(d) ==
    IF BillIds(d) = {} THEN <<>>
    ELSE LET i == CHOOSE k \in BillIds(d) : \A j \in BillIds(d) : j >= k IN
         <<[id |-> i, row |-> d.bills[i]]>>

\* SELECT bill_number FROM bills ORDER BY id DESC LIMIT 1
SelectLatest(d) ==
    IF BillIds(d) = {} THEN <<>>
    ELSE LET i == CHOOSE k \in BillIds(d) : \A j \in BillIds(d) : j <= k IN
         <<[id |-> i, row |-> d.bills[i]]>>

\* newBillNumber, from the result of the read
NewBillNumber(results) ==
    IF results # <<>>
    THEN LET currentNumber == ParseInt(results[1].row.bill_number) IN
         IF ~currentNumber.nan THEN toString(currentNumber.val + 1)
         ELSE <<"1">>
    ELSE <<"1">>

\* fault variant: the number is reserved by inserting a header that holds it
ReadAndReserve(d, t) ==
    StmtApply([kind |-> "insertBill",
               row |-> BillRow([NoReq EXCEPT !.bill_number =
                                     NewBillNumber(SelectLatest(d))], t)],
              d, FALSE)

\* the store after the read of generateUniqueBillNumber
ReadOnly(d, t) == d

\* the read, then the 200 response with the number
generateUniqueBillNumber_read(p) ==
    /\ pc[p] = "n_read"
    /\ \E r \in QueryOutcomes(Select, db, schema, fkOn, CanFail) :
          IF ~r.ok
          THEN /\ Return(p, ErrorResp(500, r.err))
               /\ UNCHANGED <<db, loc>>
          ELSE /\ db' = ReadOnly(db, now)
               /\ loc' = [loc EXCEPT ![p].bill = SelectLatest(db)]
               /\ Return(p, [NoResp EXCEPT !.status = 200,
                         !.body = <<[billNumber |-> NewBillNumber(SelectLatest(db))]>>])
    /\ snap' = [snap EXCEPT ![p] = db]
    /\ UNCHANGED <<schema, fkOn, deleted, req, aux, now, started>>
    /\ sent' = [sent EXCEPT ![p] = @ + 1]

generateUniqueBillNumber(p) ==
    \/ Arrive(p, [NoReq EXCEPT !.op = "generate"], "n_read")
    \/ generateUniqueBillNumber_read(p)

\* bill numbers of the bills created around the calls: numeric, with a
\* carry, not numeric, numeric with white space before and text after
NumberTexts == {<<"6">>, <<"9">>, <<"B", "7">>, <<" ", "7", "x">>}

NumberPayloads ==
    {[op |-> "create003", id |-> NoId, bill_number |-> n, hdr |-> NoHdr,
      hasItems |-> TRUE, items |-> <<Good>>, bank_details |-> NoBank] :
        n \in NumberTexts}

\* concurrent requests that create bills and ask for the next bill number
NextNumber ==
    \E p \in Procs :
        \/ \E r \in NumberPayloads : Arrive(p, r, "k_check")
        \/ createBill003_check(p)
        \/ createBill003_insert(p)
        \/ createBill003_batch(p)
        \/ generateUniqueBillNumber(p)

SpecNumber == Init /\ [][NextNumber]_vars

\* updates that carry bank data: any of the individually named bank fields,
\* with or without a bank_details object whose members are filled or empty
BankObjects ==
    {<<[bank_name |-> n, branch |-> b]>> : n \in {"", "sbi"}, b \in {"", "fort"}}

PutBankPayloads ==
    {[PutRequest(i, h, FALSE, <<>>) EXCEPT !.bank_details = o] :
        i \in TargetIds,
        h \in UNION {[S -> {"x"}] : S \in SUBSET individualBankFields},
        o \in BankObjects \cup {NoBank}}

PUT_bank(p) ==
    \/ \E r \in PutBankPayloads : Begin(p, r, "u_check")
    \/ PUT_check(p)
    \/ PUT_update(p)
    \/ PUT_readBill(p)
    \/ PUT_readItems(p)

NextBank == \E p \in Procs : PUT_bank(p)

SpecBank == Init /\ [][NextBank]_vars

\* ------------------------------------------ concurrent edits ([id].ts)
\* PUT and DELETE requests served concurrently, each remote call one step.
\* the bills the store holds at the start
EditIds == BillIds(SeedDb)

\* the fields of an update that names columns outside billFields
EditHdr == [f \in {"payment_status", "bill_number", "created_at"} |-> "x"]

\* updates that carry an items array of MaxItems items with data
EditPayloads ==
    {PutRequest(i, EditHdr, TRUE, l) :
        i \in EditIds, l \in {Repeat(Good, MaxItems), Repeat(Bad, MaxItems)}}

EditDeletes == {r \in IdRequests("delete") : r.id \in EditIds}

PUT_concurrent(p) ==
    \/ \E r \in EditPayloads : Arrive(p, r, "u_check")
    \/ PUT_check(p)
    \/ PUT_update(p)
    \/ PUT_deleteItems(p)
    \/ PUT_insertItem(p)
    \/ PUT_readBill(p)
    \/ PUT_readItems(p)

DELETE_concurrent(p) ==
    \/ \E r \in EditDeletes : Arrive(p, r, "d_check")
    \/ DELETE_check(p)
    \/ DELETE_items(p)
    \/ DELETE_bill(p)

NextEdit == \E p \in Procs : PUT_concurrent(p) \/ DELETE_concurrent(p)

SpecEdit == Init /\ [][NextEdit]_vars

\* ---------------------------------------- updates naming other columns
\* updates, one at a time, whose payload also names bill_number and
\* created_at, with or without an items array
FramePayloads ==
    {PutRequest(i, EditHdr, has, IF has THEN Repeat(Good, MaxItems) ELSE <<>>) :
        i \in TargetIds, has \in BOOLEAN}

PUT_frame(p) ==
    \/ \E r \in FramePayloads : Begin(p, r, "u_check")
    \/ PUT_check(p)
    \/ PUT_update(p)
    \/ PUT_deleteItems(p)
    \/ PUT_insertItem(p)
    \/ PUT_readBill(p)
    \/ PUT_readItems(p)

NextFrame == \E p \in Procs : PUT_frame(p)

SpecFrame == Init /\ [][NextFrame]_vars

\* ------------------------------------- reads during creates (concurrent)
\* POST creates and GET /api/bills/[id] reads served concurrently
createBill_concurrent(p) ==
    \/ \E r \in CreatePayloads : Arrive(p, r, "c_insert")
    \/ createBill_insert(p)
    \/ createBill_batch(p)
    \/ createBill_rollback(p)

GET_concurrent(p) ==
    \/ \E r \in IdRequests("get") : Arrive(p, r, "g_bill")
    \/ GET_bill(p)
    \/ GET_items(p)

NextRead == \E p \in Procs : createBill_concurrent(p) \/ GET_concurrent(p)

SpecRead == Init /\ [][NextRead]_vars

\* ------------------------------- deleteBill by bill number (part_003)
\* SELECT id FROM bills WHERE bill_number = ?
SelectByNumber(d, num) == {i \in BillIds(d) : d.bills[i].bill_number = num}

\* deleteStatements: the items of the selected id, the headers by number
DeleteByNumber(id, num) ==
    <<[kind |-> "deleteItems", id |-> id],
      [kind |-> "deleteBillsByNumber", bill_number |-> num]>>

NumberRequests ==
    {[op |-> "deleteByNumber", id |-> NoId, bill_number |-> n, hdr |-> NoHdr,
      hasItems |-> FALSE, items |-> <<>>, bank_details |-> NoBank] :
        n \in BillNumbers}

\* the select, then results[0]: the query has no ORDER BY, so any of the
\* matching rows may come first
deleteBill003_select(p) ==
    /\ pc[p] = "x_select"
    /\ \E r \in QueryOutcomes(Select, db, schema, fkOn, CanFail) :
          LET ids == SelectByNumber(db, req[p].bill_number) IN
          IF ~r.ok THEN Return(p, ErrorResp(500, "delete_failed")) /\ UNCHANGED loc
          ELSE IF ids = {}
          THEN Return(p, ErrorResp(404, "not_found")) /\ UNCHANGED loc
          ELSE /\ \E i \in ids : loc' = [loc EXCEPT ![p].billId = i]
               /\ pc' = [pc EXCEPT ![p] = "x_batch"]
               /\ UNCHANGED resp
    /\ UNCHANGED <<db, schema, fkOn, deleted, req, aux, snap, now, started>>
    /\ sent' = [sent EXCEPT ![p] = @ + 1]

\* db.batch(deleteStatements), then the 200 response
deleteBill003_batch(p) ==
    /\ pc[p] = "x_batch"
    /\ \E r \in BatchOutcomes(DeleteByNumber(loc[p].billId, req[p].bill_number),
                              db, schema, fkOn, CanFail) :
          /\ db' = r.db
          /\ IF ~r.ok THEN Return(p, ErrorResp(500, "delete_failed"))
             ELSE Return(p, [NoResp EXCEPT !.status = 200])
          /\ deleted' = IF r.ok THEN deleted \cup (BillIds(db) \ BillIds(r.db))
                        ELSE deleted
    /\ UNCHANGED <<schema, fkOn, req, loc, aux, snap, now, started>>
    /\ sent' = [sent EXCEPT ![p] = @ + 1]

deleteBill003(p) ==
    \/ \E r \in NumberRequests : Begin(p, r, "x_select")
    \/ deleteBill003_select(p)
    \/ deleteBill003_batch(p)

\* creates and deletes by bill number, one request at a time
NextByNumber == \E p \in Procs : createBill(p) \/ deleteBill003(p)

SpecByNumber == Init /\ [][NextByNumber]_vars

\* --------------------------- a request and its bootstrap ([id].ts, database.ts)
\* Every handler calls initializeDatabase() first.  The call starts
\* initializeTables(client) without awaiting it and returns the client, so
\* the bootstrap run and the handler's own statements proceed side by side.
\* The handler runs as r1 and the bootstrap run it started as r2.
\* the store after the first bootstrap seeded it
SeededDb ==
    ApplyAll(<<CompanyInsert(EmptyDb)>> \o SampleBillStatements(0)
             \o SampleItemStatements(1, 1), EmptyDb, FALSE)

\* the seeded store after delete requests removed all sample bills but the last
LastSampleDb ==
    ApplyAll(DeleteItemsFirst(1) \o DeleteItemsFirst(2), SeededDb, FALSE)

InitSeeded ==
    /\ db \in {SeededDb, LastSampleDb}
    /\ schema \in Schemas
    /\ fkOn \in BOOLEAN
    /\ pc = [p \in Procs |-> "idle"]
    /\ req = [p \in Procs |-> NoReq]
    /\ loc = [p \in Procs |-> NoLoc]
    /\ resp = [p \in Procs |-> NoResp]
    /\ aux = [p \in Procs |-> NoAux]
    /\ snap = [p \in Procs |-> EmptyDb]
    /\ now = 0
    /\ started = 0
    /\ sent = [p \in Procs |-> 0]
    /\ deleted = BillIds(SeededDb) \ BillIds(db)

\* requests for the bills the first seeding stored
StoredIdRequests(op) ==
    {[r EXCEPT !.id = i] : r \in IdRequests(op), i \in BillIds(SeededDb)}

\* const db = await initializeDatabase(): the request arrives, the bootstrap
\* run is started and the handler goes on to its first statement
Request_initializeDatabase(r, first) ==
    /\ \A q \in Procs : Quiet(q)
    /\ started < MaxRequests
    /\ started' = started + 1
    /\ now' = now + 1
    /\ req' = [req EXCEPT !["r1"] = r, !["r2"] = [NoReq EXCEPT !.op = "init"]]
    /\ pc' = [pc EXCEPT !["r1"] = first, !["r2"] = "i_ddl"]
    /\ loc' = [p \in Procs |-> NoLoc]
    /\ resp' = [p \in Procs |-> NoResp]
    /\ aux' = [aux EXCEPT !["r1"] = [NoAux EXCEPT !.wasDeleted = r.id \in deleted],
                          !["r2"] = [NoAux EXCEPT !.client = started + 1,
                                                  !.boot = "running"]]
    /\ snap' = [p \in Procs |-> db]
    /\ sent' = [p \in Procs |-> 0]
    /\ UNCHANGED <<db, schema, fkOn, deleted>>

Request(p) ==
    \/ \E r \in StoredIdRequests("get") : Request_initializeDatabase(r, "g_bill")
    \/ \E r \in StoredIdRequests("delete") : Request_initializeDatabase(r, "d_check")
    \/ GET_bill(p)
    \/ GET_items(p)
    \/ DELETE_check(p)
    \/ DELETE_items(p)
    \/ DELETE_bill(p)
    \/ initializeTables_ddl(p)
    \/ insertCompanyInfo_count(p)
    \/ insertSampleData_count(p)
    \/ insertSampleData_bills(p)
    \/ insertSampleData_items(p)

NextRequest == \E p \in Procs : Request(p)

SpecRequest == InitSeeded /\ [][NextRequest]_vars

\* ------------------------------------------------ handlers run to their end
\* creates with valid items, with an invalid item, and without the
\* required fields
LivePosts ==
    {PostRequest([f \in requiredFields |-> PostValue(f)], its) :
        its \in {Append(Repeat(Good, MaxItems - 1), Other),
                 Append(Repeat(Good, MaxItems - 1), Bad)}}
    \cup {PostRequest(NoHdr, Repeat(Good, MaxItems))}

\* a query that is too short and one that is searched for
LiveQueries == {<<"s", "h">>, <<"s", "h", "a">>}

\* a request of any of the handlers arrives, one request at a time
Request_arrive(p) ==
    \/ \E r \in LivePosts : Begin(p, r, "p_validate")
    \/ \E r \in IdRequests("get") : Begin(p, r, "g_bill")
    \/ \E r \in FramePayloads : Begin(p, r, "u_check")
    \/ \E r \in IdRequests("delete") : Begin(p, r, "d_check")
    \/ \E q \in LiveQueries :
          Begin(p, [NoReq EXCEPT !.op = "search", !.bill_number = q], "s_validate")
    \/ Begin(p, [NoReq EXCEPT !.op = "generate"], "n_read")

\* the continuation of a handler after an awaited remote call has completed
\* or failed, or after the validation of its input
Handler_step(p) ==
    \/ POST_validate(p)
    \/ createBill_insert(p)
    \/ createBill_batch(p)
    \/ createBill_rollback(p)
    \/ GET_bill(p)
    \/ GET_items(p)
    \/ PUT_check(p)
    \/ PUT_update(p)
    \/ PUT_deleteItems(p)
    \/ PUT_insertItem(p)
    \/ PUT_readBill(p)
    \/ PUT_readItems(p)
    \/ DELETE_check(p)
    \/ DELETE_items(p)
    \/ DELETE_bill(p)
    \/ searchCustomers_validate(p)
    \/ searchCustomers_query(p)
    \/ generateUniqueBillNumber_read(p)

NextLive == \E p \in Procs : Request_arrive(p) \/ Handler_step(p)

\* every remote call completes or fails, and the runtime then resumes the
\* handler that awaits it
SpecLive ==
    /\ Init
    /\ [][NextLive]_vars
    /\ \A p \in Procs : WF_vars(Handler_step(p))

\* ------------------------------------------------------------- properties
Done(p, op) == pc[p] = "done" /\ req[p].op = op

IsError(p) == resp[p].status >= 400

ItemInsertionFailed(p) == loc[p].err \in {"item_invalid", "batch_failed"}

HeaderLeft(p) ==
    aux[p].insertedId # NoId /\ aux[p].insertedId \in BillIds(db)

\* C1: when createBill's item insertion fails after the header insert (an
\* item is invalid or the batch is rejected) and the compensating delete
\* succeeds, no header with the generated id is retrievable once createBill
\* has returned.
C1_RolledBackHeaderGone ==
    \A p \in Procs :
        (Done(p, "create") /\ ItemInsertionFailed(p) /\ aux[p].rollback = "ok")
            => SelectBill(db, loc[p].billId) = <<>>

C1_Witness ==
    \E p \in Procs :
        /\ Done(p, "create")
        /\ loc[p].err = "batch_failed"
        /\ aux[p].rollback = "ok"
        /\ loc[p].billId # NoId

\* C2: a createBill call that returned an error response has left no header
\* of its own in the store, whatever failed after the header insert (an
\* invalid item, the item batch, no generated id, the compensating delete).
C2_NoHeaderAfterError ==
    \A p \in Procs :
        (Done(p, "create") /\ IsError(p)) => ~HeaderLeft(p)

\* C3: when item insertion fails and the compensating delete fails too, the
\* error createBill reports is the item-insertion error, not the rollback
\* error.
C3_OriginalErrorReported ==
    \A p \in Procs :
        (Done(p, "create") /\ aux[p].rollback = "failed")
            => /\ ItemInsertionFailed(p)
               /\ resp[p].error = loc[p].err
               /\ resp[p].error # "rollback_failed"

C3_Witness ==
    \E p \in Procs :
        /\ Done(p, "create")
        /\ aux[p].rollback = "failed"
        /\ loc[p].err = "batch_failed"
        /\ HeaderLeft(p)

\* C4: once every request has completed, every bill_items row references an
\* existing bills row, also when the foreign key is not enforced.
C4_NoOrphanItems ==
    (\A p \in Procs : Quiet(p))
        => \A i \in 1 .. Len(db.items) : db.items[i].bill_id \in BillIds(db)

\* C5: a createBill whose bill number belongs to an existing header is
\* answered with 409 and inserts neither a header nor an item row (a call
\* whose insert was not answered, or was answered without an id, is left
\* aside).
C5_DuplicateRejected ==
    \A p \in Procs :
        (Done(p, "create") /\ aux[p].dup
            /\ resp[p].error \notin {"d1_error", "no_bill_id"})
            => /\ resp[p].status = 409
               /\ aux[p].insertedId = NoId
               /\ aux[p].insertedItems = 0

\* C6: no two bill headers carry the same non-null bill number, under every
\* interleaving of createBill calls that check the number and then insert.
C6_BillNumberUnique ==
    \A i, j \in BillIds(db) :
        (i # j /\ db.bills[i].bill_number # <<>>)
            => db.bills[i].bill_number # db.bills[j].bill_number

IsDelete(p) == req[p].op \in {"delete", "deleteBill"}

\* C7: from the moment a delete has found its bill, the header is never
\* absent while item rows of that bill remain, in particular when the item
\* deletion succeeded and the header deletion failed.
C7_ItemsBeforeHeader ==
    \A p \in Procs :
        (IsDelete(p) /\ aux[p].found /\ req[p].id \notin BillIds(db))
            => ItemsOf(db, req[p].id) = <<>>

C7_Witness ==
    \E p \in Procs :
        /\ pc[p] = "done"
        /\ IsDelete(p)
        /\ aux[p].found
        /\ resp[p].status = 500
        /\ req[p].id \in BillIds(db)
        /\ ItemsOf(snap[p], req[p].id) # <<>>
        /\ ItemsOf(db, req[p].id) = <<>>

HasContent(item) ==
    \/ item.product_description # <<>>
    \/ item.product_name # <<>>
    \/ item.quantity # <<>>
    \/ item.unit_price > 0
    \/ item.total_price > 0

\* the rows of the supplied items that have content, in the supplied order
RECURSIVE SuppliedWithContent(_, _, _)
SuppliedWithContent(its, i, id) ==
    IF i > Len(its) THEN <<>>
    ELSE (IF HasContent(its[i]) THEN <<PutItemRow(its[i], i, id)>> ELSE <<>>)
         \o SuppliedWithContent(its, i + 1, id)

\* C9: after a successful update whose payload has an items array, the
\* bill's stored items are exactly the supplied items that have content, in
\* the supplied order: no earlier item remains, no blank item is stored.
C9_ItemsReplaced ==
    \A p \in Procs :
        (Done(p, "put") /\ resp[p].status = 200 /\ req[p].hasItems)
            => ItemsOf(db, req[p].id) = SuppliedWithContent(req[p].items, 1, req[p].id)

C9_Witness ==
    \E p \in Procs :
        /\ Done(p, "put")
        /\ resp[p].status = 200
        /\ req[p].hasItems
        /\ ItemsOf(snap[p], req[p].id) # <<>>
        /\ Len(req[p].items) = 2
        /\ Len(ItemsOf(db, req[p].id)) = 1
        /\ ItemsOf(db, req[p].id) # ItemsOf(snap[p], req[p].id)

\* the header fields an update payload names
PayloadFields(r) ==
    DOMAIN r.hdr \cup (IF r.bank_details # NoBank THEN individualBankFields ELSE {})

OnlyPaymentStatus(r) ==
    PayloadFields(r) = {"payment_status"} /\ ~r.hasItems

\* C10: an update leaves every header field its payload does not name
\* (other than the updated timestamp) at its stored value, leaves every
\* other bill unchanged and, without an items array, leaves all item rows
\* unchanged; a successful update with only payment_status changes exactly
\* payment_status and the updated timestamp.
C10_PartialUpdate ==
    \A p \in Procs :
        Done(p, "put") =>
            LET id == req[p].id
                before == snap[p].bills
                after == db.bills IN
            /\ DOMAIN after = DOMAIN before
            /\ \A j \in DOMAIN before : j # id => after[j] = before[j]
            /\ id \in DOMAIN before =>
                  \A f \in DOMAIN before[id] :
                      f \notin PayloadFields(req[p]) \cup {"updated_at"}
                          => after[id][f] = before[id][f]
            /\ ~req[p].hasItems => db.items = snap[p].items
            /\ (resp[p].status = 200 /\ OnlyPaymentStatus(req[p]))
                  => after[id] = [before[id] EXCEPT
                                     !.payment_status = req[p].hdr.payment_status,
                                     !.updated_at = now]

C10_Witness ==
    \E p \in Procs :
        /\ Done(p, "put")
        /\ resp[p].status = 200
        /\ OnlyPaymentStatus(req[p])
        /\ snap[p].bills[req[p].id].payment_status # req[p].hdr.payment_status
        /\ db.bills[req[p].id].payment_status = req[p].hdr.payment_status
        /\ ItemsOf(db, req[p].id) # <<>>

\* C11: every successful update of an existing bill leaves the bill's
\* updated timestamp at the time of the update, also when the payload has
\* only an items array or no recognised header field.
C11_UpdatedAtRefreshed ==
    \A p \in Procs :
        (Done(p, "put") /\ resp[p].status = 200 /\ req[p].id \in BillIds(db))
            => db.bills[req[p].id].updated_at = now

IsUpdate(p) == req[p].op \in {"put", "updateBill"}

\* C12: an update addressed to a bill id that does not exist is answered not
\* found and writes nothing (an update whose remote call was not answered is
\* left aside).
C12_UpdateOfMissingBill ==
    \A p \in Procs :
        (pc[p] = "done" /\ IsUpdate(p) /\ req[p].id \notin BillIds(snap[p])
            /\ resp[p].status # 500)
            => (resp[p].status = 404 /\ db = snap[p])

\* C13: after a successful update, a bank column holds the member of the
\* payload's bank_details object when the payload has that object (the
\* stored value when the member is missing or empty), whatever individually
\* named bank fields the payload has; without the object it holds the
\* individually named field, or the stored value when that is absent too.
C13_BankDetailsPrecedence ==
    \A p \in Procs :
        (Done(p, "put") /\ resp[p].status = 200) =>
            \A f \in individualBankFields :
                LET r == req[p]
                    before == snap[p].bills[r.id][f]
                    after == db.bills[r.id][f] IN
                IF r.bank_details # NoBank
                THEN after = (IF BankMember(r.bank_details[1], f) # ""
                              THEN BankMember(r.bank_details[1], f) ELSE before)
                ELSE after = (IF f \in DOMAIN r.hdr THEN r.hdr[f] ELSE before)

C13_Witness ==
    \E p \in Procs :
        /\ Done(p, "put")
        /\ resp[p].status = 200
        /\ req[p].bank_details = <<[bank_name |-> "sbi", branch |-> ""]>>
        /\ DOMAIN req[p].hdr = individualBankFields
        /\ db.bills[req[p].id].bank_name = "sbi"
        /\ db.bills[req[p].id].bank_branch = snap[p].bills[req[p].id].bank_branch
        /\ db.bills[req[p].id].bank_branch # req[p].hdr.bank_branch

\* the calls of initializeDatabase whose bootstrap run has started
BootRuns == {p \in Procs : req[p].op = "init" /\ aux[p].boot # "none"}

\* C14: however many requests call initializeDatabase, at most one bootstrap
\* run is started and every caller holds the same client instance.
C14_SingleFlight ==
    /\ Cardinality(BootRuns) <= 1
    /\ \A p, q \in BootRuns : aux[p].client = aux[q].client

\* C15: a caller whose bootstrap run failed (the DDL batch or a seeding
\* statement was rejected) has not been handed a client.
C15_FailureObserved ==
    \A p \in BootRuns : aux[p].boot = "failed" => aux[p].client = NoClient

\* C16: company_info never holds more than one row, holds exactly the row
\* with id 1 once a bootstrap run has completed without a failure, and a row
\* it holds is never removed or changed.
C16_CompanySingleton ==
    /\ [](/\ Len(db.company) <= 1
          /\ \A p \in BootRuns :
                (pc[p] = "done" /\ aux[p].boot = "ok")
                    => (Len(db.company) = 1 /\ db.company[1].id = 1))
    /\ [][db.company # <<>> => db'.company = db.company]_vars

C16_Witness ==
    \E p, q \in BootRuns :
        /\ p # q
        /\ pc[p] = "done" /\ pc[q] = "done"
        /\ aux[p].boot = "ok"
        /\ snap[q].company = <<>>
        /\ aux[q].boot = "failed"
        /\ db.company = <<[id |-> 1, name |-> "shagoon"]>>

\* the bill numbers of the sample bills
SampleNumbers == {sampleBills[i].bill_number : i \in 1 .. Len(sampleBills)}

\* C17: whatever the interleaving of bootstrap runs, each sample bill number
\* is on at most one header and each sample item is stored at most once.
C17_NoDuplicateSeeds ==
    /\ \A i, j \in BillIds(db) :
          (i # j /\ db.bills[i].bill_number \in SampleNumbers)
              => db.bills[i].bill_number # db.bills[j].bill_number
    /\ \A i, j \in 1 .. Len(db.items) :
          i # j => db.items[i].product_name # db.items[j].product_name

\* the header with the highest id
LatestHeader(d) ==
    d.bills[CHOOSE k \in BillIds(d) : \A j \in BillIds(d) : j <= k]

\* process p completes the read of generateUniqueBillNumber with a 200
Generates(p) ==
    /\ pc[p] = "n_read"
    /\ pc'[p] = "done"
    /\ resp'[p].status = 200

\* C18: when the read is answered, the number returned is "1" if no bill
\* exists; otherwise it is n + 1 written in decimal when the bill number of
\* the header with the highest id parses as the integer n, and "1" when that
\* bill number does not parse.
C18_NextNumber ==
    [][\A p \in Procs :
          Generates(p) =>
              resp'[p].body[1].billNumber =
                  (IF BillIds(db) = {} THEN <<"1">>
                   ELSE IF ParseInt(LatestHeader(db).bill_number).nan
                        THEN <<"1">>
                        ELSE toString(ParseInt(LatestHeader(db).bill_number).val + 1))]_vars

C18_Witness ==
    \E p, q \in Procs :
        /\ Done(p, "generate") /\ resp[p].status = 200
        /\ Done(q, "create003") /\ resp[q].status = 201
        /\ Cardinality(BillIds(db)) = 2
        /\ loc[p].bill # <<>>
        /\ loc[p].bill[1].id = aux[q].insertedId
        /\ loc[p].bill[1].row.bill_number = <<"9">>
        /\ resp[p].body = <<[billNumber |-> <<"1", "0">>]>>

\* C19: the number returned by generateUniqueBillNumber is, at the moment
\* of its read, not the bill number of any existing header.
C19_NumberUnused ==
    [][\A p \in Procs :
          Generates(p) =>
              \A i \in BillIds(db) :
                  db.bills[i].bill_number # resp'[p].body[1].billNumber]_vars

\* the calls of generateUniqueBillNumber that were answered with a number
Answered == {p \in Procs : Done(p, "generate") /\ resp[p].status = 200}

LacksRequired(p) ==
    \/ \E f \in {"customer_name", "customer_phone", "invoice_date"} :
          f \notin DOMAIN req[p].hdr \/ req[p].hdr[f] = ""
    \/ ~req[p].hasItems
    \/ req[p].items = <<>>

\* C21: a POST whose payload lacks customer_name, customer_phone or
\* invoice_date, or has no items, sends no request to the backend, leaves
\* the store as it was, and is answered with 400.
C21_RejectedLocally ==
    \A p \in Procs :
        (req[p].op = "post" /\ LacksRequired(p))
            => /\ sent[p] = 0
               /\ db = snap[p]
               /\ pc[p] = "done" => resp[p].status = 400

C21_Witness ==
    \E p \in Procs :
        /\ Done(p, "post")
        /\ DOMAIN req[p].hdr = {"customer_name", "customer_phone", "invoice_date"}
        /\ req[p].hdr.customer_phone # ""
        /\ req[p].items = <<>>
        /\ resp[p].status = 400
        /\ sent[p] = 0
        /\ BillIds(db) # {}

\* the payload of p holds an item that createBill's checks reject
HasInvalidItem(p) ==
    \E i \in 1 .. Len(req[p].items) : ItemError(req[p].items[i]) # ""

\* C22: a create whose payload holds an item with an empty product name or
\* category, or a non-positive unit price, numeric quantity or total price,
\* sends no statement to the backend.
C22_InvalidItemNeverSent ==
    \A p \in Procs :
        (req[p].op = "post" /\ HasInvalidItem(p)) => sent[p] = 0

\* what made the request of p fail, read off the error it ended with
Cause(p) ==
    IF resp[p].error \in {"missing_required_fields", "items_required", "item_invalid"}
    THEN "bad_input"
    ELSE IF resp[p].error = "not_found" THEN "not_found"
    ELSE IF resp[p].error \in {"unique_constraint", "bill_number_exists"}
    THEN "conflict"
    ELSE "backend"

\* the class a response status belongs to
Class(status) ==
    IF status = 404 THEN "not_found"
    ELSE IF status = 409 THEN "conflict"
    ELSE IF status < 500 THEN "bad_input"
    ELSE "backend"

\* C23: every failed request is answered in the class of its cause: invalid
\* data 4xx, an absent bill 404, a duplicate bill number 409, a failed
\* remote call 5xx.
C23_ErrorClasses ==
    \A p \in Procs :
        (pc[p] = "done" /\ resp[p].status >= 400)
            => Class(resp[p].status) = Cause(p)

\* a POST served for r1 that succeeded, and the GET of the id it returned,
\* served for r2 after it
ReadBackDone ==
    /\ Done("r1", "post") /\ resp["r1"].status = 201
    /\ Done("r2", "get") /\ resp["r2"].status = 200
    /\ req["r2"].id = resp["r1"].billId

\* the rows and the header a GET returned agree with the payload, the texts
\* compared as conv makes them
ReadBackAgrees(conv(_)) ==
    LET its == req["r1"].items
        got == resp["r2"].body[1] IN
    /\ Len(got.items) = Len(its)
    /\ resp["r1"].itemsCount = Len(got.items)
    /\ \A i \in 1 .. Len(its) :
          /\ got.items[i].product_name = conv(its[i].product_name)
          /\ got.items[i].product_description = conv(its[i].product_description)
          /\ got.items[i].product_category = conv(its[i].product_category)
          /\ got.items[i].unit_price = its[i].unit_price
          /\ got.items[i].total_price = its[i].total_price
          /\ got.items[i].quantity =
                 (IF its[i].quantity = <<>> THEN <<"1">> ELSE its[i].quantity)
          /\ got.items[i].sr_no = (IF its[i].sr_no = 0 THEN i ELSE its[i].sr_no)
    /\ got.bill[1].row.total_amount = Supplied(req["r1"], "total_amount", 0)
    /\ got.bill[1].row.discount_amount = Supplied(req["r1"], "discount_amount", 0)

AsSupplied(t) == t

C30_NoItemBeforeAllValid ==
    \A p \in Procs :
        (req[p].op = "post" /\ HasInvalidItem(p))
            => /\ aux[p].insertedItems = 0
               /\ aux[p].insertedId # NoId
                     => ItemsOf(db, aux[p].insertedId) = <<>>

C30_Witness ==
    \E p \in Procs :
        /\ Done(p, "post")
        /\ Len(req[p].items) = MaxItems
        /\ ItemError(req[p].items[1]) = ""
        /\ ItemError(req[p].items[MaxItems]) # ""
        /\ aux[p].insertedId # NoId
        /\ aux[p].rollback = "failed"
        /\ aux[p].insertedId \in BillIds(db)
        /\ ItemsOf(db, aux[p].insertedId) = <<>>

\* the batch calls that a statement of theirs made fail
FailedBatches ==
    {p \in Procs : Done(p, "batch") /\ resp[p].status = 200 /\ resp[p].error # ""}

\* C25: batch runs the statements in order and stops at the first that
\* fails: of a batch whose statement k failed, exactly the k - 1 statements
\* before it are applied, and the error raised identifies k (batches that
\* failed at different statements raise different errors).
C25_BatchFailFast ==
    /\ \A p \in FailedBatches :
          /\ aux[p].insertedItems < Len(req[p].hdr)
          /\ snap[p].seq + aux[p].insertedItems <= db.seq
    /\ \A p, q \in FailedBatches :
          aux[p].insertedItems # aux[q].insertedItems
              => <<resp[p].error, loc[p].err>> # <<resp[q].error, loc[q].err>>

\* the query calls that threw
FailedQueries == {p \in Procs : Done(p, "query") /\ resp[p].error # ""}

\* why the query of p failed
QueryFailure(p) ==
    IF resp[p].status = 200 THEN "backend"
    ELSE IF resp[p].status = 401 THEN "credential"
    ELSE "transport"

\* C26: a finished query has sent exactly one HTTP request; it threw when
\* the status was not 2xx and when a 2xx body reported success = false, and
\* returned the first result set otherwise; queries that failed for
\* different reasons (transport, backend, rejected credential) threw
\* different errors.
C26_QueryOutcome ==
    /\ \A p \in Procs :
          Done(p, "query") =>
              /\ sent[p] = 1
              /\ (resp[p].status < 200 \/ resp[p].status > 299) => resp[p].error # ""
              /\ (resp[p].status = 200 /\ loc[p].err # "") => resp[p].error # ""
              /\ (resp[p].status = 200 /\ loc[p].err = "")
                    => (resp[p].error = "" /\ Len(resp[p].body) = 1)
              /\ resp[p].error # "" => resp[p].body = <<>>
    /\ \A p, q \in FailedQueries :
          QueryFailure(p) # QueryFailure(q) => resp[p].error # resp[q].error

C26_Witness ==
    \E p, q \in FailedQueries :
        /\ resp[p].status = 401
        /\ resp[q].status = 200 /\ loc[q].err = "unique_constraint"
        /\ sent[p] = 1 /\ sent[q] = 1
        /\ db = snap[p] /\ db = snap[q]

\* the variables that the configuration of p's call leaves empty
Unset(p) == {n \in DOMAIN req[p].hdr : req[p].hdr[n] = ""}

\* C27: a call of initializeDatabase with the account id, the database id or
\* the API token missing sends no request to the backend, starts no
\* bootstrap and hands out no client, and its error lists the missing
\* values, all of them and no other.
C27_ConfigChecked ==
    \A p \in Procs :
        (req[p].op = "init" /\ Unset(p) # {})
            => /\ pc[p] = "done"
               /\ sent[p] = 0
               /\ aux[p].client = NoClient /\ aux[p].boot = "none"
               /\ resp[p].error = "missing_environment_variables"
               /\ {resp[p].body[i] : i \in 1 .. Len(resp[p].body)} = Unset(p)
               /\ Len(resp[p].body) = Cardinality(Unset(p))

C27_Witness ==
    \E p \in Procs :
        /\ req[p].op = "init"
        /\ Unset(p) = {"CLOUDFLARE_ACCOUNT_ID", "CLOUDFLARE_API_TOKEN"}
        /\ resp[p].body = <<"CLOUDFLARE_ACCOUNT_ID", "CLOUDFLARE_API_TOKEN">>
        /\ sent[p] = 0
        /\ db = snap[p]

\* text holds q as a run of consecutive characters
Contains(text, q) ==
    \E i \in 1 .. (Len(text) - Len(q) + 1) : SubSeq(text, i, i + Len(q) - 1) = q

\* the customer names on the headers of d that contain q
NamesWith(d, q) ==
    {d.bills[i].customer_name : i \in
        {j \in BillIds(d) : Contains(NameText(d.bills[j].customer_name), q)}}

\* the header with the highest id among those of customer name
LastOf(d, name) ==
    d.bills[CHOOSE i \in BillIds(d) :
               /\ d.bills[i].customer_name = name
               /\ \A j \in BillIds(d) : d.bills[j].customer_name = name => j <= i]

\* C28: a search with a query of at least 3 characters is not rejected, and
\* when its read is answered it returns at most 10 profiles, one for each
\* customer name that contains the query, taken from that customer's bill
\* with the highest id, in ascending order of name; it writes nothing.
C28_SearchResult ==
    /\ [](\A p \in Procs :
            (Done(p, "search") /\ Len(req[p].bill_number) >= 3)
                => resp[p].status # 400)
    /\ [][\A p \in Procs :
            (pc[p] = "s_query" /\ pc'[p] = "done" /\ resp'[p].status = 200) =>
                LET got == resp'[p].body
                    q == req[p].bill_number IN
                /\ db' = db
                /\ Len(got) <= 10
                /\ {got[k].customer_name : k \in 1 .. Len(got)} = NamesWith(db, q)
                /\ \A k \in 1 .. Len(got) :
                      got[k].customer_phone = LastOf(db, got[k].customer_name).customer_phone
                /\ \A k \in 1 .. Len(got) - 1 :
                      NameRank(got[k].customer_name) < NameRank(got[k + 1].customer_name)]_vars

\* C29: a search whose query is absent or shorter than 3 characters sends
\* no request to the backend and is answered with 400.
C29_ShortQueryRejected ==
    \A p \in Procs :
        (req[p].op = "search" /\ Len(req[p].bill_number) < 3)
            => /\ sent[p] = 0
               /\ pc[p] = "done" => resp[p].status = 400

C29_Witness ==
    \E p \in Procs :
        /\ Done(p, "search")
        /\ req[p].bill_number = <<"s", "h">>
        /\ resp[p].status = 400
        /\ sent[p] = 0
        /\ BillIds(db) # {}

\* C39: no step of PUT /api/bills/[id] changes the id, the bill_number or
\* the created_at of any bill, whatever fields the payload names: the set of
\* bill ids stays the same and every bill keeps its bill_number and its
\* created_at across each step of an update.
C39_IdentityKept ==
    [][\A p \in Procs :
          (req[p].op = "put" /\ pc[p] # pc'[p] /\ ~Quiet(p)) =>
              /\ BillIds(db') = BillIds(db)
              /\ \A i \in BillIds(db) :
                    /\ db'.bills[i].bill_number = db.bills[i].bill_number
                    /\ db'.bills[i].created_at = db.bills[i].created_at]_vars

\* an update whose payload names bill_number and created_at was applied
C39_Witness ==
    \E p \in Procs :
        /\ Done(p, "put")
        /\ resp[p].status = 200
        /\ {"bill_number", "created_at"} \subseteq DOMAIN req[p].hdr
        /\ req[p].id \in BillIds(db)
        /\ db.bills[req[p].id].payment_status = "paid"
        /\ db.bills[req[p].id].bill_number # req[p].hdr.bill_number

\* C35: an update that returns an error leaves the bill as it was when the
\* request arrived: the header row is unchanged and the bill has the same
\* item rows, neither emptied nor partly replaced.
C35_FailedUpdateNoEffect ==
    \A p \in Procs :
        (/\ Done(p, "put")
         /\ IsError(p)
         /\ req[p].id \in BillIds(snap[p])) =>
            /\ req[p].id \in BillIds(db)
            /\ db.bills[req[p].id] = snap[p].bills[req[p].id]
            /\ ItemsOf(db, req[p].id) = ItemsOf(snap[p], req[p].id)

\* C33: once an update that carries items and a delete of the same bill,
\* served concurrently in any interleaving, have both returned, no item row
\* names a bill that has no header.
C33_NoOrphanAfterRace ==
    \A p, q \in Procs :
        (/\ Done(p, "put")
         /\ req[p].hasItems
         /\ Done(q, "delete")
         /\ req[q].id = req[p].id
         /\ req[p].id \notin BillIds(db)) =>
            ItemsOf(db, req[p].id) = <<>>

\* the set of rows in a list of rows
RowSet(s) == {s[i] : i \in 1 .. Len(s)}

\* C34: when two updates of the same bill, both carrying items and served
\* concurrently in any interleaving, have both returned success, the items
\* stored for the bill are the items of one of the two updates: not a
\* mixture of both and not their union.
C34_OneUpdateWins ==
    \A p, q \in Procs :
        (/\ p # q
         /\ Done(p, "put") /\ resp[p].status = 200 /\ req[p].hasItems
         /\ Done(q, "put") /\ resp[q].status = 200 /\ req[q].hasItems
         /\ req[q].id = req[p].id
         /\ req[p].id \in BillIds(db)) =>
            RowSet(ItemsOf(db, req[p].id)) \in
                {RowSet(SuppliedWithContent(req[p].items, 1, req[p].id)),
                 RowSet(SuppliedWithContent(req[q].items, 1, req[q].id))}

\* C36: a read that is served concurrently with a create and answers with
\* the bill being created never shows a partially written bill: once both
\* have returned, the header the read showed is still stored (it was not
\* rolled back) and the read showed as many items as are stored for it.
C36_NoPartialRead ==
    \A g, c \in Procs :
        (/\ Done(g, "get") /\ resp[g].status = 200
         /\ Done(c, "create")
         /\ aux[c].insertedId = req[g].id) =>
            /\ req[g].id \in BillIds(db)
            /\ Len(resp[g].body[1].items) = Len(ItemsOf(db, req[g].id))

\* C37: when deleteBill by bill number has returned success, every header
\* it removed has no item row left, also when several headers shared the
\* bill number.
C37_ItemsOfEveryHeader ==
    \A p \in Procs :
        (Done(p, "deleteByNumber") /\ resp[p].status = 200) =>
            \A i \in BillIds(snap[p]) \ BillIds(db) : ItemsOf(db, i) = <<>>

\* C32: no statement that reads or writes bills of a request is sent before
\* the bootstrap run started by that request's initializeDatabase call has
\* completed: whenever the handler (r1) sends a statement, the bootstrap
\* run of its request (r2) has finished.
C32_BootstrapFirst ==
    [][sent'["r1"] > sent["r1"] => pc["r2"] = "done"]_vars

\* C38: bill rows appear only through a create request or the first seeding
\* of an empty store: once the sample bills were seeded and delete requests
\* removed them, no step of a request that arrived afterwards (other than a
\* create) adds a bill row.
C38_NoReseed ==
    [][(deleted # {} /\ BillIds(snap["r2"]) = {} /\ req["r2"].op = "init") =>
          BillIds(db') \subseteq BillIds(db)]_vars

\* C31: provided every remote call eventually completes or fails, every
\* request of the create, get, update, delete, customer search and
\* bill-number handlers eventually returns an HTTP response, a success or a
\* structured error: a request that is being served leads to a finished
\* request with a response status.
C31_HandlersReturn ==
    \A p \in Procs :
        (~Quiet(p)) ~> (pc[p] = "done" /\ resp[p].status # 0)

\* a request whose remote call failed has returned an error response
C31_Witness ==
    \E p \in Procs :
        /\ pc[p] = "done"
        /\ req[p].op \in {"post", "put", "delete"}
        /\ resp[p].status = 500
        /\ sent[p] > 1

====
